---- MODULE Spec2Model ----
(***************************************************************************)
(* Model of the groupie-tracker data-ingestion pipeline:                   *)
(*   api.InitializeData     four retrying fetch goroutines and the fan-in  *)
(*   api.Fetch*WithContext  one HTTP GET + status check + JSON decode      *)
(*   api.SetLoadingStatus / GetLoadingStatus, api.RefreshData              *)
(*   main                   startup goroutine and scheduler launch         *)
(*   handlers.*Handler      the request handlers and the lookups of        *)
(*                          package services they call                     *)
(*   services.*             ProcessRelations, formatLocationName and       *)
(*                          parseDate, on strings character by character   *)
(*   search.*               Search, SearchAll, MatchResults, SortResults   *)
(*                          and RemoveDuplicates over a small catalogue    *)
(*   services.Geocode, FillCacheBackground, saveCache                      *)
(*                          the geocode cache and its file                 *)
(*                                                                         *)
(* Time is counted in whole seconds per fetch goroutine: `elapsed` is the  *)
(* time since the goroutine created its context.  Only the latency of a    *)
(* fetch and the backoff sleeps consume time.                              *)
(***************************************************************************)
EXTENDS Integers, Sequences, FiniteSets, TLC

-----------------------------------------------------------------------------
(* Program constants *)

\* api.go:40  maxRetries := 2
maxRetries == 2

\* api.go:44  context.WithTimeout(context.Background(), 5*time.Second)
Timeout == 5

\* api.go:60  time.Sleep(1 * time.Second)
Backoff == 1

\* api.go:135  for i := 0; i < 4; i++
NumTasks == 4

\* api.go:41  ch := make(chan error, 4): the capacity of the result channel
ChanCap == 4

\* api_test.go:375  the number of requests a flaky endpoint fails before it
\* answers
FlakyFailures == 2

\* net/http StatusOK, api.go:159
StatusOK == 200

\* the status the tests' failing endpoints answer with (api_test.go:671)
StatusInternalServerError == 500

\* api.go:261  24 * time.Hour, in seconds
RefreshInterval == 86400

\* api.go:273  1 * time.Second, in seconds
RetryInterval == 1

\* geolocalization.go:125  FillCacheBackground saves after every fifth stored location
SaveEvery == 5

-----------------------------------------------------------------------------
(* Bounds of the model *)

\* InitializeData calls made in a row by the direct caller
MaxCalls == 2

\* scheduled runs RefreshData may start
MaxRefresh == 2

\* versions of the upstream data
MaxVer == 2

\* latencies (seconds) an erratic endpoint may take to answer one request:
\* 0, SlowDelay, and Timeout (the request hangs until the deadline)
SlowDelay == 2

\* goroutines calling SetLoadingStatus and GetLoadingStatus concurrently
NumAccessors == 2

\* most locations of a stored relation
MaxLocations == 2

\* most consecutive GetRelationsByID calls for one ID
MaxLookups == 3

\* most words of a search query
MaxTokens == 2

\* most token groups handed to MatchResults, and most results of one group
MaxGroups == 3
MaxGroupLen == 2

\* most Geocode calls
MaxGeocodes == 1

-----------------------------------------------------------------------------
(* Data *)

Kinds == {"Artists", "Locations", "Dates", "Relations"}

\* who may call InitializeData: main's startup goroutine, RefreshData, or a
\* direct caller (the tests call InitializeData directly)
Callers == {"startup", "refresh", "direct"}

\* a nil slice
Nil == 0

\* the name each goroutine's messages carry
FetchName(k) ==
    CASE k = "Artists"   -> "FetchArtists"
      [] k = "Locations" -> "FetchLocations"
      [] k = "Dates"     -> "FetchDates"
      [] k = "Relations" -> "FetchRelations"

\* a nil error returned by a fetch
NilErr == [msg |-> "<nil>", code |-> 0]

\* the value `ch <- nil` sends
NoError == [op |-> "", msg |-> "nil", n |-> 0, cause |-> NilErr]

\* fmt.Errorf("FetchX timed out on attempt %d\n", attempt)
TimeoutError(k, attempt) ==
    [op |-> FetchName(k), msg |-> "timed out on attempt", n |-> attempt, cause |-> NilErr]

\* fmt.Errorf("FetchX failed after %d attempts: %v", maxRetries+1, err)
ExhaustedError(k, err) ==
    [op |-> FetchName(k), msg |-> "failed after attempts", n |-> maxRetries + 1, cause |-> err]

-----------------------------------------------------------------------------
(* The upstream endpoints *)

Durations == {0, SlowDelay, Timeout}

\* what one request meets: the transport's outcome, the response status, the
\* body and the time the answer takes
Responses ==
    [transport : {"ok", "error"}, status : {StatusOK, StatusInternalServerError},
     body : {"valid", "invalid"}, delay : Durations]

GoodResponse ==
    [transport |-> "ok", status |-> StatusOK, body |-> "valid", delay |-> 0]

NetworkFailure ==
    [transport |-> "error", status |-> StatusOK, body |-> "valid", delay |-> 0]

\* healthy: every request is answered at once with 200 and a valid body
\* failing: every request fails at once in the transport
\* flaky:   the first FlakyFailures requests ever made to the endpoint fail,
\*          every later one succeeds (api_test.go:351-361: the transport
\*          counts the requests of a path over its life); the first run makes
\*          maxRetries + 1 requests, so that every request of a later run
\*          succeeds
\* dying:   healthy during the first run, failing in every later one
\* hanging: no request is answered before the deadline
\* erratic: any response, after any latency
Behaviours == {"healthy", "failing", "flaky", "dying", "hanging", "erratic"}

\* the responses attempt number `attempt` of run number `run` may meet
ResponsesOf(b, attempt, run) ==
    CASE b = "healthy" -> {GoodResponse}
      [] b = "failing" -> {NetworkFailure}
      [] b = "flaky"   -> IF run <= 1 /\ attempt < FlakyFailures
                          THEN {NetworkFailure} ELSE {GoodResponse}
      [] b = "dying"   -> IF run <= 1 THEN {GoodResponse} ELSE {NetworkFailure}
      [] b = "hanging" -> {[GoodResponse EXCEPT !.delay = Timeout]}
      [] b = "erratic" -> Responses

\* the collection the JSON body of version v decodes to
Decode(k, v) == v

\* Fetch<k>WithContext returning what the decoder had filled in when the
\* decoding failed
FetchPartialDecode(k, r, elapsed, v) ==
    IF elapsed + r.delay >= Timeout
    THEN [coll |-> Nil, took |-> Timeout - elapsed,
          err |-> [msg |-> "Failed to fetch: context deadline exceeded", code |-> 0]]
    ELSE IF r.transport = "error"
    THEN [coll |-> Nil, took |-> r.delay,
          err |-> [msg |-> "Failed to fetch", code |-> 0]]
    ELSE IF r.status # StatusOK
    THEN [coll |-> Nil, took |-> r.delay,
          err |-> [msg |-> "API Unexpected status", code |-> r.status]]
    ELSE IF r.body # "valid"
    THEN [coll |-> Decode(k, v), took |-> r.delay,
          err |-> [msg |-> "JSON decode failed", code |-> 0]]
    ELSE [coll |-> Decode(k, v), took |-> r.delay, err |-> NilErr]

\* Fetch<k>WithContext(ctx) called `elapsed` seconds after ctx was created and
\* meeting response r: the collection, the error and the time it took
FetchWithContext(k, r, elapsed, v) ==
    IF elapsed + r.delay >= Timeout
    THEN [coll |-> Nil, took |-> Timeout - elapsed,
          err |-> [msg |-> "Failed to fetch: context deadline exceeded", code |-> 0]]
    ELSE IF r.transport = "error"
    THEN [coll |-> Nil, took |-> r.delay,
          err |-> [msg |-> "Failed to fetch", code |-> 0]]
    ELSE IF r.status # StatusOK
    THEN [coll |-> Nil, took |-> r.delay,
          err |-> [msg |-> "API Unexpected status", code |-> r.status]]
    ELSE IF r.body # "valid"
    THEN [coll |-> Nil, took |-> r.delay,
          err |-> [msg |-> "JSON decode failed", code |-> 0]]
    ELSE [coll |-> Decode(k, v), took |-> r.delay, err |-> NilErr]

-----------------------------------------------------------------------------
(* Relation records and their processing (package services) *)

\* the artist ids every version of the upstream data holds
ArtistIDs == {1}

\* the datesLocations object the relation endpoint serves for an artist
\* (the example of services_test.go TestProcessRelations)
RawDatesLocations ==
    ("new-york-usa" :> <<"01-01-2020", "15-06-2021">>)
    @@ ("paris-france" :> <<"03-03-2022", "01-01-2019">>)

\* models.Relations as json.Decode leaves it: SortedLocations has no JSON key
\* and stays nil
RawRelation(id) ==
    [ID |-> id, DatesLocations |-> RawDatesLocations, SortedLocations |-> <<>>]

\* the records of the relation collection of version v
DecodeRelations(v) == IF v = Nil THEN <<>> ELSE [id \in ArtistIDs |-> RawRelation(id)]

\* s[i] as a string of one character
Char(s, i) == SubSeq(s, i, i)

\* strings.Contains(s, c) for a single character c
Contains(s, c) == \E i \in 1..Len(s) : Char(s, i) = c

\* strings.ReplaceAll(s, a, b) for a single character a
RECURSIVE ReplaceAll(_, _, _)
ReplaceAll(s, a, b) ==
    IF s = "" THEN ""
    ELSE (IF Head(s) = a THEN b ELSE Head(s)) \o ReplaceAll(Tail(s), a, b)

\* strings.LastIndex(s, c) + 1 for a single character c: 0 when c is not in s
LastIndex(s, c) ==
    IF Contains(s, c)
    THEN CHOOSE i \in 1..Len(s) : Char(s, i) = c /\ \A j \in (i + 1)..Len(s) : Char(s, j) # c
    ELSE 0

\* unicode.IsSpace on the characters of the data
IsSpace(c) == c = " "

\* strings.TrimLeftFunc(s, f) for f the membership in the characters cs
RECURSIVE TrimLeft(_, _)
TrimLeft(s, cs) ==
    IF s # "" /\ Head(s) \in cs THEN TrimLeft(Tail(s), cs) ELSE s

RECURSIVE TrimRight(_, _)
TrimRight(s, cs) ==
    IF s # "" /\ Char(s, Len(s)) \in cs THEN TrimRight(SubSeq(s, 1, Len(s) - 1), cs) ELSE s

\* strings.TrimSpace
TrimSpace(s) == TrimRight(TrimLeft(s, {" "}), {" "})

LowerLetters == "abcdefghijklmnopqrstuvwxyz"
UpperLetters == "ABCDEFGHIJKLMNOPQRSTUVWXYZ"

\* unicode.ToLower / unicode.ToUpper of one character
ToLowerChar(c) ==
    IF Contains(UpperLetters, c)
    THEN Char(LowerLetters, CHOOSE i \in 1..Len(UpperLetters) : Char(UpperLetters, i) = c)
    ELSE c

ToUpperChar(c) ==
    IF Contains(LowerLetters, c)
    THEN Char(UpperLetters, CHOOSE i \in 1..Len(LowerLetters) : Char(LowerLetters, i) = c)
    ELSE c

\* strings.ToLower
RECURSIVE ToLower(_)
ToLower(s) == IF s = "" THEN "" ELSE ToLowerChar(Head(s)) \o ToLower(Tail(s))

\* the first word of s, which does not begin with a space
RECURSIVE FirstWord(_)
FirstWord(s) ==
    IF s = "" \/ IsSpace(Head(s)) THEN "" ELSE Head(s) \o FirstWord(Tail(s))

\* strings.Fields: the words of s, split around runs of spaces
RECURSIVE Fields(_)
Fields(s) ==
    LET t == TrimLeft(s, {" "}) IN
    IF t = "" THEN <<>>
    ELSE <<FirstWord(t)>> \o Fields(SubSeq(t, Len(FirstWord(t)) + 1, Len(t)))

\* strings.Join(words, sep)
RECURSIVE Join(_, _)
Join(words, sep) ==
    IF words = <<>> THEN ""
    ELSE IF Len(words) = 1 THEN words[1]
    ELSE words[1] \o sep \o Join(Tail(words), sep)

\* services.go:86  titleCase: every word in lower case with its first letter
\* in upper case, the words joined by single spaces
titleCase(s) ==
    IF TrimSpace(s) = "" THEN ""
    ELSE LET words == Fields(ToLower(TrimSpace(s))) IN
         Join([i \in 1..Len(words) |-> ToUpperChar(Head(words[i])) \o Tail(words[i])], " ")

\* services.go:112-131  "city-country" becomes "City, Country", split at the
\* last hyphen; a name without a hyphen is title-cased
formatUnformatted(loc) ==
    LET l == ReplaceAll(loc, "_", " ")
        idx == LastIndex(l, "-")
        left == titleCase(ReplaceAll(SubSeq(l, 1, idx - 1), "-", " "))
        right == titleCase(ReplaceAll(SubSeq(l, idx + 1, Len(l)), "-", " "))
        country == IF right = "Usa" THEN "USA" ELSE IF right = "Uk" THEN "UK" ELSE right
    IN IF idx # 0
       THEN TrimSpace(left) \o ", " \o TrimSpace(country)
       ELSE titleCase(l)

\* a formatting without the test for names that are formatted already
formatLocationNameUnchecked(loc) == formatUnformatted(loc)

\* services.go:107  formatLocationName: a name with a comma is formatted
\* already and is returned as it is
formatLocationName(loc) ==
    IF Contains(loc, ",") THEN loc ELSE formatUnformatted(loc)

\* services.go:135  formatLocations: the new maps keyed by the formatted
\* names; of two keys with the same formatted name the one the map iteration
\* visits last leaves its dates
formatLocations(dl) ==
    LET names == {formatLocationName(loc) : loc \in DOMAIN dl} IN
    {[name \in names |-> dl[pick[name]]] :
        pick \in {p \in [names -> DOMAIN dl] :
                    \A name \in names : formatLocationName(p[name]) = name}}

Digits == "0123456789"

\* the number a string of digits denotes
RECURSIVE Atoi(_)
Atoi(s) ==
    IF s = "" THEN 0
    ELSE Atoi(SubSeq(s, 1, Len(s) - 1)) * 10
         + (CHOOSE d \in 0..9 : Char(Digits, d + 1) = Char(s, Len(s)))

AllDigits(s) == \A i \in 1..Len(s) : Contains(Digits, Char(s, i))

\* time.daysIn
DaysIn(month, year) ==
    IF month = 2
    THEN (IF year % 4 = 0 /\ (year % 100 # 0 \/ year % 400 = 0) THEN 29 ELSE 28)
    ELSE IF month \in {4, 6, 9, 11} THEN 30 ELSE 31

\* the day number year*10000 + month*100 + day of three fields, or -1 when a
\* field is not a number of its width or is out of range
DayNumber(day, month, year) ==
    IF /\ AllDigits(day) /\ AllDigits(month) /\ AllDigits(year)
       /\ Atoi(month) \in 1..12
       /\ Atoi(day) >= 1 /\ Atoi(day) <= DaysIn(Atoi(month), Atoi(year))
    THEN Atoi(year) * 10000 + Atoi(month) * 100 + Atoi(day)
    ELSE -1

\* time.Parse(layout, s) for the four layouts of services.go:69-74
ParseLayout(layout, s) ==
    IF Len(s) # 10 THEN -1
    ELSE CASE layout = "02-01-2006" /\ Char(s, 3) = "-" /\ Char(s, 6) = "-" ->
                DayNumber(SubSeq(s, 1, 2), SubSeq(s, 4, 5), SubSeq(s, 7, 10))
           [] layout = "01-02-2006" /\ Char(s, 3) = "-" /\ Char(s, 6) = "-" ->
                DayNumber(SubSeq(s, 4, 5), SubSeq(s, 1, 2), SubSeq(s, 7, 10))
           [] layout = "2006-01-02" /\ Char(s, 5) = "-" /\ Char(s, 8) = "-" ->
                DayNumber(SubSeq(s, 9, 10), SubSeq(s, 6, 7), SubSeq(s, 1, 4))
           [] layout = "2006-02-01" /\ Char(s, 5) = "-" /\ Char(s, 8) = "-" ->
                DayNumber(SubSeq(s, 6, 7), SubSeq(s, 9, 10), SubSeq(s, 1, 4))
           [] OTHER -> -1

\* services.go:69-74  the layouts, in the order they are tried
DateFormats == <<"02-01-2006", "2006-01-02", "01-02-2006", "2006-02-01">>

\* services.go:54  parseDate: the day number of the date, or -1 for a string
\* no layout parses
parseDate(d) ==
    LET s == ReplaceAll(ReplaceAll(TrimLeft(TrimSpace(d), {"*", " "}), "/", "-"), ".", "-") IN
    IF TrimSpace(d) = "" THEN -1
    ELSE IF \E i \in 1..Len(DateFormats) : ParseLayout(DateFormats[i], s) # -1
    THEN ParseLayout(DateFormats[CHOOSE i \in 1..Len(DateFormats) :
                         /\ ParseLayout(DateFormats[i], s) # -1
                         /\ \A j \in 1..(i - 1) : ParseLayout(DateFormats[j], s) = -1], s)
    ELSE -1

\* services.go:152  dateNewer: an unparseable date is older than a parseable one
dateNewer(dateA, dateB) ==
    IF parseDate(dateA) = -1 \/ parseDate(dateB) = -1
    THEN parseDate(dateA) # -1
    ELSE parseDate(dateA) > parseDate(dateB)

\* d inserted into the newest-first sequence ds, after the dates it is not
\* newer than
RECURSIVE InsertDate(_, _)
InsertDate(d, ds) ==
    IF ds = <<>> THEN <<d>>
    ELSE IF dateNewer(d, Head(ds)) THEN <<d>> \o ds
    ELSE <<Head(ds)>> \o InsertDate(d, Tail(ds))

\* sort.SliceStable(dates, dateNewer): newest first, equal dates in their order
RECURSIVE SortDates(_)
SortDates(ds) ==
    IF ds = <<>> THEN <<>>
    ELSE InsertDate(ds[Len(ds)], SortDates(SubSeq(ds, 1, Len(ds) - 1)))

\* services.go:163  sortDatesInLocations
sortDatesInLocations(dl) ==
    [loc \in DOMAIN dl |-> IF Len(dl[loc]) <= 1 THEN dl[loc] ELSE SortDates(dl[loc])]

\* time.Time of the first date of a location; a date that does not parse is
\* the zero time, January 1 of year 1
FirstDate(dl, loc) == IF parseDate(dl[loc][1]) = -1 THEN 10101 ELSE parseDate(dl[loc][1])

\* services.go:178  sortLocationsByDate: the orders sort.Slice may leave the
\* locations that have dates in, whatever order the map was iterated in
sortLocationsByDate(dl) ==
    LET locs == {loc \in DOMAIN dl : Len(dl[loc]) > 0}
        n == Cardinality(locs)
    IN {sl \in [1..n -> locs] :
          /\ \A i, j \in 1..n : i # j => sl[i] # sl[j]
          /\ \A i, j \in 1..n : i < j => FirstDate(dl, sl[i]) >= FirstDate(dl, sl[j])}

\* services.go:144  ProcessRelations: the contents the record may have after it
ProcessRelations(rel) ==
    UNION {{[rel EXCEPT !.DatesLocations = sortDatesInLocations(fl), !.SortedLocations = sl] :
              sl \in sortLocationsByDate(sortDatesInLocations(fl))} :
           fl \in formatLocations(rel.DatesLocations)}

\* the contents a record of the served data can have: as decoded, and after
\* ProcessRelations
ServedRelations ==
    {RawRelation(id) : id \in ArtistIDs}
    \cup UNION {ProcessRelations(RawRelation(id)) : id \in ArtistIDs}

\* ProcessRelations on the records of the served data, computed once
ProcessServed == [rel \in ServedRelations |-> ProcessRelations(rel)]

\* what a Fetch<k>WithContext call that has not returned has produced
NoResult == [coll |-> Nil, took |-> 0, err |-> NilErr]

\* no Fetch<k>WithContext call
NoCall ==
    [pc |-> "none", k |-> "Artists", r |-> GoodResponse, elapsed |-> 0, v |-> 0,
     out |-> NoResult]

\* All_Relations nil: no record
NoRecords == <<>>

\* no GetRelationsByID call has been made
NoLookups == [n |-> 0, first |-> [ID |-> 0, DatesLocations |-> <<>>, SortedLocations |-> <<>>]]

\* the direct caller has made no call yet
NoPrevious ==
    [called |-> FALSE, errs |-> {}, store |-> [k \in Kinds |-> Nil], upstream |-> 0]

\* neither search.Search nor search.MatchResults has been called
NoSearch == [op |-> "none", query |-> "", cat |-> 0, groups |-> <<>>, out |-> <<>>]

\* no Geocode call in progress
IdleGeocode == [pc |-> "idle", list |-> <<>>, i |-> 0, calls |-> 0]

\* FillCacheBackground has not been started
IdleFill == [pc |-> "off", todo |-> {}, loc |-> "", dirty |-> FALSE, count |-> 0, data |-> {}]

\* geolocalization.go:49-51  geoCache = make(map[string]models.Coordinates) and
\* no locations.json; no goroutine of the package runs
NoGeo ==
    [pc |-> "off", cache |-> {}, file |-> {}, unknown |-> {}, savers |-> <<>>,
     gc |-> IdleGeocode, fill |-> IdleFill]

-----------------------------------------------------------------------------
(* State *)

VARIABLES
    Status,      \* api.Status (guarded by statusMutex)
    store,       \* All_Artists, All_Locations, All_Dates, All_Relations
    endpoint,    \* behaviour of each kind's endpoint during the current run
    upstream,    \* version of the data the endpoints serve
    ipc,         \* per caller: where its InitializeData call is
    ch,          \* per caller: the call's result channel
    errors,      \* per caller: the call's local `errors`
    recvd,       \* per caller: the collecting loop's i
    closed,      \* per caller: ch has been closed
    ret,         \* per caller: the value the call returned
    task,        \* per caller and kind: the fetch goroutine
    pre,         \* the store when the current call of each caller began
    mainPc,      \* main
    startupPc,   \* main's startup goroutine
    refreshPc,   \* RefreshData
    branch,      \* which branch of RefreshData's loop is running
    directPc,    \* the direct caller
    runs,        \* InitializeData calls started so far
    exited,      \* the process has exited (log.Fatalf)
    slept,       \* RefreshData: the sleeps of the current loop iteration
    records,     \* the Relations records of the array All_Relations points to
    statusMutex, \* api.statusMutex (sync.RWMutex)
    acc,         \* goroutines calling SetLoadingStatus / GetLoadingStatus
    written,     \* the triples SetLoadingStatus has been called with
    call,        \* one call of a Fetch<k>WithContext function
    req,         \* the goroutine net/http runs a request handler in
    env,         \* which endpoint behaviours the runs of the process meet
    prev,        \* the direct caller: what its previous call returned and left
    lookups,     \* a caller of GetRelationsByID: its calls and what the first left
    srch,        \* a caller of search.Search / search.MatchResults: input and result
    geo          \* the geocode cache, its file and the goroutines that touch them

vars == <<Status, store, endpoint, upstream, ipc, ch, errors, recvd, closed, ret,
          task, pre, mainPc, startupPc, refreshPc, branch, directPc, runs, exited,
          slept, records, statusMutex, acc, written, call, req, env, prev, lookups, srch, geo>>

procVars == <<mainPc, startupPc, refreshPc, branch, exited>>
directVars == <<directPc, runs>>
sideVars == <<statusMutex, acc, written, call, req, env, prev, lookups, srch, geo>>

All_Artists == store["Artists"]
All_Locations == store["Locations"]
All_Dates == store["Dates"]
All_Relations == store["Relations"]

-----------------------------------------------------------------------------
(* Status Register *)

\* api.go:237  SetLoadingStatus
SetLoadingStatus(loading, loaded, failed) ==
    [IsLoading |-> loading, IsLoaded |-> loaded, HasFailed |-> failed]

\* api.go:247  GetLoadingStatus
GetLoadingStatus == Status

Loading == SetLoadingStatus(TRUE, FALSE, FALSE)
Loaded == SetLoadingStatus(FALSE, TRUE, FALSE)
Failed == SetLoadingStatus(FALSE, FALSE, TRUE)
ZeroStatus == SetLoadingStatus(FALSE, FALSE, FALSE)

\* the collections a handler has read: none
NoView == [k \in Kinds |-> Nil]

\* no request is being handled
IdleRequest ==
    [pc |-> "idle", h |-> "none", id |-> 0, query |-> "",
     view |-> NoView, results |-> <<>>, code |-> 0, page |-> "none", loaded |-> FALSE]

\* the request goroutine r once the status has become s: whether Status has
\* been Loaded at some instant since HomeHandler or ArtistDetailsHandler
\* began to handle the request
Observe(r, s) ==
    IF r.pc \notin {"idle", "done"} /\ r.h \in {"HomeHandler", "ArtistDetailsHandler"}
       /\ s.IsLoaded
    THEN [r EXCEPT !.loaded = TRUE]
    ELSE r

\* the goroutines that call the accessors concurrently
Accessors == 1..NumAccessors

\* the argument triples the program calls SetLoadingStatus with (main.go:16,
\* main.go:22, main.go:25, api.go:263-283)
Triples == {Loading, Loaded, Failed}

\* sync.RWMutex zero value
Unlocked == [writer |-> FALSE, readers |-> 0]

\* a goroutine outside the accessors.  `returned` says that its last call was
\* a GetLoadingStatus, which returned `got`; `follows` says that no
\* SetLoadingStatus call overlapped that read, which then followed the call
\* that had set `expect` (the initial value when there was none)
IdleAccessor ==
    [pc |-> "idle", arg |-> ZeroStatus, copy |-> ZeroStatus,
     got |-> ZeroStatus, returned |-> FALSE, expect |-> ZeroStatus, follows |-> FALSE]

\* goroutine a is between the call and the return of SetLoadingStatus
InSet(a) == acc[a].pc \in {"s238", "s241", "s242", "s243", "s245"}

\* no SetLoadingStatus call is between its call and its return
NoSetInProgress == \A a \in Accessors : ~InSet(a)

\* a Lock that never waits
CanLockAlways(m) == TRUE

\* statusMutex.Lock() returns when no writer and no reader holds the mutex
CanLock(m) == ~m.writer /\ m.readers = 0

\* an RLock that never waits
CanRLockAlways(m) == TRUE

\* statusMutex.RLock() returns when no writer holds the mutex
CanRLock(m) == ~m.writer

accFrame ==
    UNCHANGED <<store, endpoint, upstream, ipc, ch, errors, recvd, closed, ret, task, pre,
                procVars, directVars, slept, records, call, req, env, prev, lookups, srch, geo>>

\* api.go:237  a goroutine calls SetLoadingStatus(x): every read in progress
\* is now overlapped by a write
SetCall(a, x) ==
    /\ acc[a].pc = "idle"
    /\ acc' = [b \in Accessors |->
                 IF b = a THEN [IdleAccessor EXCEPT !.pc = "s238", !.arg = x]
                 ELSE IF acc[b].pc = "idle" THEN acc[b]
                 ELSE [acc[b] EXCEPT !.follows = FALSE, !.expect = ZeroStatus]]
    /\ written' = [written EXCEPT !.all = @ \cup {x}]
    /\ UNCHANGED <<Status, statusMutex>>
    /\ accFrame

\* api.go:238  statusMutex.Lock()
SetLock(a) ==
    /\ acc[a].pc = "s238"
    /\ CanLock(statusMutex)
    /\ statusMutex' = [statusMutex EXCEPT !.writer = TRUE]
    /\ acc' = [acc EXCEPT ![a].pc = "s241"]
    /\ UNCHANGED <<Status, written>>
    /\ accFrame

\* api.go:240-244  Status = LoadingStatus{...}, one field at a time
SetWrite(a) ==
    /\ acc[a].pc \in {"s241", "s242", "s243"}
    /\ Status' = CASE acc[a].pc = "s241" -> [Status EXCEPT !.IsLoading = acc[a].arg.IsLoading]
                   [] acc[a].pc = "s242" -> [Status EXCEPT !.IsLoaded = acc[a].arg.IsLoaded]
                   [] acc[a].pc = "s243" -> [Status EXCEPT !.HasFailed = acc[a].arg.HasFailed]
    /\ acc' = [acc EXCEPT ![a].pc = CASE acc[a].pc = "s241" -> "s242"
                                      [] acc[a].pc = "s242" -> "s243"
                                      [] acc[a].pc = "s243" -> "s245"]
    /\ UNCHANGED <<statusMutex, written>>
    /\ accFrame

\* api.go:239, 245  the deferred statusMutex.Unlock(); the call returns
SetUnlock(a) ==
    /\ acc[a].pc = "s245"
    /\ statusMutex' = [statusMutex EXCEPT !.writer = FALSE]
    /\ written' = [written EXCEPT !.last = acc[a].arg]
    /\ acc' = [acc EXCEPT ![a] = IdleAccessor]
    /\ UNCHANGED Status
    /\ accFrame

\* api.go:247  a goroutine calls GetLoadingStatus()
GetCall(a) ==
    /\ acc[a].pc = "idle"
    /\ acc' = [acc EXCEPT ![a] =
                 [IdleAccessor EXCEPT !.pc = "g248",
                                      !.follows = NoSetInProgress,
                                      !.expect = IF NoSetInProgress THEN written.last
                                                 ELSE ZeroStatus]]
    /\ UNCHANGED <<Status, statusMutex, written>>
    /\ accFrame

\* api.go:248  statusMutex.RLock()
GetRLock(a) ==
    /\ acc[a].pc = "g248"
    /\ CanRLock(statusMutex)
    /\ statusMutex' = [statusMutex EXCEPT !.readers = @ + 1]
    /\ acc' = [acc EXCEPT ![a].pc = "g250a"]
    /\ UNCHANGED <<Status, written>>
    /\ accFrame

\* api.go:250  return Status: the result is copied one field at a time
GetCopy(a) ==
    /\ acc[a].pc \in {"g250a", "g250b", "g250c"}
    /\ acc' = [acc EXCEPT
                 ![a].copy = CASE acc[a].pc = "g250a" -> [@ EXCEPT !.IsLoading = Status.IsLoading]
                               [] acc[a].pc = "g250b" -> [@ EXCEPT !.IsLoaded = Status.IsLoaded]
                               [] acc[a].pc = "g250c" -> [@ EXCEPT !.HasFailed = Status.HasFailed],
                 ![a].pc = CASE acc[a].pc = "g250a" -> "g250b"
                             [] acc[a].pc = "g250b" -> "g250c"
                             [] acc[a].pc = "g250c" -> "g251"]
    /\ UNCHANGED <<Status, statusMutex, written>>
    /\ accFrame

\* api.go:249, 251  the deferred statusMutex.RUnlock(); the call returns
GetRUnlock(a) ==
    /\ acc[a].pc = "g251"
    /\ statusMutex' = [statusMutex EXCEPT !.readers = @ - 1]
    /\ acc' = [acc EXCEPT ![a].pc = "idle", ![a].got = acc[a].copy,
                          ![a].copy = ZeroStatus, ![a].returned = TRUE]
    /\ UNCHANGED <<Status, written>>
    /\ accFrame

-----------------------------------------------------------------------------
(* Retrying fetch goroutine *)

\* a goroutine that has not been started
IdleTask ==
    [pc |-> "idle", attempt |-> 0, elapsed |-> 0, err |-> NilErr, last |-> NilErr,
     sleeps |-> 0, fetches |-> 0, fired |-> -1, lateSleeps |-> 0, sent |-> NoError,
     rank |-> 0]

\* go func() { ctx, cancel := context.WithTimeout(...); var err error; attempt := 0
FreshTask == [IdleTask EXCEPT !.pc = "loop"]

\* ctx.Err() != nil
CtxErr(elapsed) == elapsed >= Timeout

\* a loop that stops one attempt early
LoopExclusive(attempt) == attempt < maxRetries

\* for ...; attempt <= maxRetries; ...
LoopContinues(attempt) == attempt <= maxRetries

\* a backoff after every failed attempt, the last included
BackoffAlways(attempt) == attempt <= maxRetries

\* if attempt < maxRetries { time.Sleep(1 * time.Second) }
ShouldBackoff(attempt) == attempt < maxRetries

\* an assignment made whatever the fetch returned
StoreAlways(s, k, f) == [s EXCEPT ![k] = f.coll]

\* All_<k> = append(All_<k>, <collection>...): the field grows with every
\* call (the collection's number written after the field's)
StoreAppending(s, k, f) ==
    IF f.err = NilErr THEN [s EXCEPT ![k] = @ * 10 + f.coll] ELSE s

\* if err == nil { All_<k> = <collection> }
StoreAfterFetch(s, k, f) == IF f.err = NilErr THEN [s EXCEPT ![k] = f.coll] ELSE s

\* the value of the goroutine's outer `err` after `x, err := Fetch...(ctx)`:
\* := declares a new err in the loop body, the outer one is not assigned
OuterErrAfterFetch(outer, inner) == outer

\* the Relations records after the assignment: those of the new collection
RecordsAfterFetch(recs, k, f) ==
    IF f.err = NilErr /\ k = "Relations" THEN DecodeRelations(f.coll) ELSE recs

\* a goroutine that sends an error but returns on success without sending
SendErrorsOnly(c, e) ==
    /\ Len(ch[c]) < ChanCap
    /\ ch' = [ch EXCEPT ![c] = IF e = NoError THEN @ ELSE Append(@, e)]

\* ch := make(chan error): a send waits until the value sent before it has
\* been received
SendUnbuffered(c, e) ==
    /\ Len(ch[c]) < 1
    /\ ch' = [ch EXCEPT ![c] = Append(@, e)]

\* ch <- e: the send blocks while the buffer is full; on a closed channel
\* it panics and nothing is sent
Send(c, e) ==
    /\ Len(ch[c]) < ChanCap
    /\ ch' = [ch EXCEPT ![c] = IF closed[c] THEN @ ELSE Append(@, e)]

\* the errors sent on caller c's channel so far: those received and kept in
\* `errors`, and those still in the buffer
ErrorsSent(c) == Len(errors[c]) + Len(SelectSeq(ch[c], LAMBDA e : e # NoError))

\* where the goroutine is after its send: it has returned, or the send
\* panicked
AfterSend(c) == IF closed[c] THEN "panic" ELSE "done"

\* a collecting loop that stops at the first value received
LoopCollectsFirst(i) == i < 1

\* api.go:135  for i := 0; i < 4; i++
LoopCollects(i) == i < NumTasks

\* api.go:48-51  the deadline has passed at the top of the loop
TaskTimeout(c, k) ==
    LET t == task[c][k] IN
    /\ ~exited
    /\ t.pc = "loop"
    /\ LoopContinues(t.attempt)
    /\ CtxErr(t.elapsed)
    /\ Send(c, TimeoutError(k, t.attempt))
    /\ task' = [task EXCEPT ![c][k] =
                  [t EXCEPT !.pc = AfterSend(c), !.sent = TimeoutError(k, t.attempt),
                            !.rank = ErrorsSent(c) + 1]]
    /\ UNCHANGED <<Status, store, endpoint, upstream, ipc, errors, recvd, closed, ret, pre>>
    /\ UNCHANGED <<procVars, directVars>>
    /\ UNCHANGED <<slept, records, sideVars>>

\* api.go:52-57  the fetch succeeds: replace the field, send nil
TaskSuccess(c, k) ==
    LET t == task[c][k] IN
    /\ ~exited
    /\ t.pc = "loop"
    /\ LoopContinues(t.attempt)
    /\ ~CtxErr(t.elapsed)
    /\ \E r \in ResponsesOf(endpoint[k], t.attempt, runs) :
         LET f == FetchWithContext(k, r, t.elapsed, upstream) IN
         /\ f.err = NilErr
         /\ store' = StoreAfterFetch(store, k, f)
         /\ records' = RecordsAfterFetch(records, k, f)
         /\ Send(c, NoError)
         /\ task' = [task EXCEPT ![c][k] =
                       [t EXCEPT !.pc = AfterSend(c), !.elapsed = @ + f.took,
                                 !.fetches = @ + 1, !.sent = NoError]]
    /\ UNCHANGED <<Status, endpoint, upstream, ipc, errors, recvd, closed, ret, pre>>
    /\ UNCHANGED <<procVars, directVars>>
    /\ UNCHANGED <<slept, sideVars>>

\* api.go:52-61  the fetch fails: log, sleep unless this was the last attempt,
\* attempt++
TaskRetry(c, k) ==
    LET t == task[c][k] IN
    /\ ~exited
    /\ t.pc = "loop"
    /\ LoopContinues(t.attempt)
    /\ ~CtxErr(t.elapsed)
    /\ \E r \in ResponsesOf(endpoint[k], t.attempt, runs) :
         LET f == FetchWithContext(k, r, t.elapsed, upstream)
             fires == t.elapsed + f.took >= Timeout
             nap == IF ShouldBackoff(t.attempt) THEN Backoff ELSE 0
             naps == IF ShouldBackoff(t.attempt) THEN 1 ELSE 0
         IN
         /\ f.err # NilErr
         /\ store' = StoreAfterFetch(store, k, f)
         /\ task' = [task EXCEPT ![c][k] =
                       [t EXCEPT !.attempt = @ + 1,
                                 !.elapsed = @ + f.took + nap,
                                 !.err = OuterErrAfterFetch(t.err, f.err),
                                 !.last = f.err,
                                 !.fetches = @ + 1,
                                 !.sleeps = @ + naps,
                                 !.fired = IF fires THEN t.attempt ELSE @,
                                 !.lateSleeps = IF fires THEN @ + naps ELSE @]]
    /\ UNCHANGED <<Status, endpoint, upstream, ipc, ch, errors, recvd, closed, ret, pre>>
    /\ UNCHANGED <<procVars, directVars>>
    /\ UNCHANGED <<slept, records, sideVars>>

\* api.go:63  the loop ended without a success
TaskExhausted(c, k) ==
    LET t == task[c][k] IN
    /\ ~exited
    /\ t.pc = "loop"
    /\ ~LoopContinues(t.attempt)
    /\ Send(c, ExhaustedError(k, t.err))
    /\ task' = [task EXCEPT ![c][k] =
                  [t EXCEPT !.pc = AfterSend(c), !.sent = ExhaustedError(k, t.err),
                            !.rank = ErrorsSent(c) + 1]]
    /\ UNCHANGED <<Status, store, endpoint, upstream, ipc, errors, recvd, closed, ret, pre>>
    /\ UNCHANGED <<procVars, directVars>>
    /\ UNCHANGED <<slept, records, sideVars>>

-----------------------------------------------------------------------------
(* InitializeData: fan-out and fan-in *)

\* api.go:39-133  var errors; ch := make(chan error, 4); four go statements.
\* e is the behaviour the endpoints show during this run, v the data they serve
StartRun(c, e, v) ==
    /\ ipc[c] = "idle"
    /\ ipc' = [ipc EXCEPT ![c] = "collect"]
    /\ ch' = [ch EXCEPT ![c] = <<>>]
    /\ errors' = [errors EXCEPT ![c] = <<>>]
    /\ recvd' = [recvd EXCEPT ![c] = 0]
    /\ closed' = [closed EXCEPT ![c] = FALSE]
    /\ task' = [task EXCEPT ![c] = [k \in Kinds |-> FreshTask]]
    /\ pre' = [pre EXCEPT ![c] = store]
    /\ endpoint' = e
    /\ upstream' = v
    /\ ret' = [ret EXCEPT ![c] = <<>>]
    /\ runs' = runs + 1

\* an append of every value received, nil or not
AppendAlways(errs, e) == Append(errs, e)

\* the place of an error's goroutine among the four go statements
DeclarationOrder(e) ==
    CASE e.op = "FetchArtists"   -> 1
      [] e.op = "FetchLocations" -> 2
      [] e.op = "FetchDates"     -> 3
      [] OTHER                   -> 4

\* a list kept in the order of the go statements, whatever the order of
\* arrival
AppendInDeclarationOrder(errs, e) ==
    IF e = NoError THEN errs
    ELSE SelectSeq(errs, LAMBDA x : DeclarationOrder(x) < DeclarationOrder(e))
         \o <<e>>
         \o SelectSeq(errs, LAMBDA x : DeclarationOrder(x) >= DeclarationOrder(e))

\* api.go:136-138  if err := <-ch; err != nil { errors = append(errors, err) }
AppendError(errs, e) == IF e # NoError THEN Append(errs, e) ELSE errs

\* api.go:135-139  one iteration of the collecting loop
Collect(c) ==
    /\ ~exited
    /\ ipc[c] = "collect"
    /\ LoopCollects(recvd[c])
    /\ Len(ch[c]) > 0
    /\ errors' = [errors EXCEPT ![c] = AppendError(@, Head(ch[c]))]
    /\ ch' = [ch EXCEPT ![c] = Tail(@)]
    /\ recvd' = [recvd EXCEPT ![c] = @ + 1]
    /\ UNCHANGED <<Status, store, endpoint, upstream, ipc, closed, ret, task, pre>>
    /\ UNCHANGED <<procVars, directVars>>
    /\ UNCHANGED <<slept, records, sideVars>>

\* api.go:141-144  if len(errors) > 0 { return errors }; return nil
ReturnValue(errs) == IF Len(errs) > 0 THEN errs ELSE <<>>

\* api.go:140-144  close(ch) and return
Return(c) ==
    /\ ~exited
    /\ ipc[c] = "collect"
    /\ ~LoopCollects(recvd[c])
    /\ closed' = [closed EXCEPT ![c] = TRUE]
    /\ ret' = [ret EXCEPT ![c] = ReturnValue(errors[c])]
    /\ ipc' = [ipc EXCEPT ![c] = "returned"]
    /\ UNCHANGED <<Status, store, endpoint, upstream, ch, errors, recvd, task, pre>>
    /\ UNCHANGED <<procVars, directVars>>
    /\ UNCHANGED <<slept, records, sideVars>>

RunStep ==
    \E c \in Callers :
        \/ \E k \in Kinds : TaskTimeout(c, k)
        \/ \E k \in Kinds : TaskSuccess(c, k)
        \/ \E k \in Kinds : TaskRetry(c, k)
        \/ \E k \in Kinds : TaskExhausted(c, k)
        \/ Collect(c)
        \/ Return(c)

\* the Go scheduler runs every goroutine that stays runnable: the four fetch
\* goroutines of a call and the goroutine that called InitializeData
RunFairness ==
    \A c \in Callers :
        /\ WF_vars(Collect(c))
        /\ WF_vars(Return(c))
        /\ \A k \in Kinds :
             WF_vars(TaskTimeout(c, k) \/ TaskSuccess(c, k) \/ TaskRetry(c, k)
                       \/ TaskExhausted(c, k))

-----------------------------------------------------------------------------
(* A direct caller: InitializeData called MaxCalls times in a row, as the   *)
(* tests do after swapping the transport                                   *)

\* errors := InitializeData()
DirectCall ==
    /\ directPc = "ready"
    /\ runs < MaxCalls
    /\ \E v \in {upstream, upstream + 1} :
         /\ v <= MaxVer
         /\ StartRun("direct", endpoint, v)
    /\ directPc' = "waiting"
    /\ UNCHANGED <<Status, store, procVars>>
    /\ UNCHANGED <<slept, records, sideVars>>

\* the errors of a returned list, whatever their order
ErrorSet(errs) == {errs[i] : i \in 1..Len(errs)}

\* the call returns to the caller, which keeps the list and looks at the store
DirectReturn ==
    /\ directPc = "waiting"
    /\ ipc["direct"] = "returned"
    /\ ipc' = [ipc EXCEPT !["direct"] = "idle"]
    /\ directPc' = "ready"
    /\ prev' = [called |-> TRUE, errs |-> ErrorSet(ret["direct"]), store |-> store,
                upstream |-> upstream]
    /\ UNCHANGED <<Status, store, endpoint, upstream, ch, errors, recvd, closed, ret, task, pre>>
    /\ UNCHANGED <<procVars, runs>>
    /\ UNCHANGED <<slept, records, statusMutex, acc, written, call, req, env, lookups, srch, geo>>

\* every assignment of the behaviours `others` to the kinds but one, which
\* shows a behaviour of `special`
OneSpecial(special, others) ==
    {e \in [Kinds -> special \cup others] :
        Cardinality({k \in Kinds : e[k] \in special}) = 1}

\* all four endpoints showing behaviour b
All(b) == [k \in Kinds |-> b]

\* the endpoint behaviours a direct caller is run against: every mix of
\* healthy and failing endpoints; all four flaky, or dying; every kind in
\* turn flaky, dying, hanging or erratic beside healthy others
DirectEndpoints ==
    [Kinds -> {"healthy", "failing"}]
    \cup {All("flaky"), All("dying")}
    \cup OneSpecial({"flaky", "dying", "hanging", "erratic"}, {"healthy"})

InitCore ==
    /\ ipc = [c \in Callers |-> "idle"]
    /\ ch = [c \in Callers |-> <<>>]
    /\ errors = [c \in Callers |-> <<>>]
    /\ recvd = [c \in Callers |-> 0]
    /\ closed = [c \in Callers |-> FALSE]
    /\ ret = [c \in Callers |-> <<>>]
    /\ task = [c \in Callers |-> [k \in Kinds |-> IdleTask]]
    /\ store = [k \in Kinds |-> Nil]
    /\ pre = [c \in Callers |-> store]
    /\ Status = ZeroStatus
    /\ upstream = 1
    /\ runs = 0
    /\ exited = FALSE
    /\ slept = <<>>
    /\ records = NoRecords
    /\ statusMutex = Unlocked
    /\ acc = [a \in Accessors |-> IdleAccessor]
    /\ written = [all |-> {}, last |-> ZeroStatus]
    /\ call = NoCall
    /\ req = IdleRequest
    /\ prev = NoPrevious
    /\ lookups = NoLookups
    /\ srch = NoSearch

InitRun ==
    /\ InitCore
    /\ geo = NoGeo

\* the tests' reset(): all four globals nil; the transport is swapped
Init ==
    /\ InitRun
    /\ endpoint \in DirectEndpoints
    /\ mainPc = "off" /\ startupPc = "off" /\ refreshPc = "off" /\ branch = "none"
    /\ directPc = "ready"
    /\ env = "tests"

Next ==
    \/ DirectCall
    \/ DirectReturn
    \/ RunStep

Spec == Init /\ [][Next]_vars

-----------------------------------------------------------------------------
(* The geocode cache and its file (package services, geolocalization.go)   *)

\* what a read of a slice variable yields when it overlaps a write of it:
\* pointer and length of different values
Torn == -1

\* a run's fetch goroutine of kind k is about to fetch and assign All_<k>
WritePending(c, k) ==
    /\ ~exited
    /\ task[c][k].pc = "loop"
    /\ LoopContinues(task[c][k].attempt)
    /\ ~CtxErr(task[c][k].elapsed)
    /\ \E r \in ResponsesOf(endpoint[k], task[c][k].attempt, runs) :
         FetchWithContext(k, r, task[c][k].elapsed, upstream).err = NilErr

\* the values an unguarded read of All_<k> may yield: the value of the
\* variable, or a torn one when an assignment to it is pending
ReadField(k) ==
    {store[k]} \cup (IF \E c \in Callers : WritePending(c, k) THEN {Torn} ELSE {})

\* geolocalization.go:93-98  uniqueLocs: the formatted names of the location
\* names of the records of api.All_Relations, whose slice value was read as x
uniqueLocs(x, recs) ==
    IF x = Nil \/ x = Torn THEN {}
    ELSE UNION {{formatLocationName(rawLoc) : rawLoc \in DOMAIN recs[id].DatesLocations} :
                  id \in DOMAIN recs}

\* the location lists Geocode is called with
GeocodeLists ==
    {<<"Paris, France">>, <<"Berlin, Germany", "Paris, France">>,
     <<"Berlin, Germany", "Rome, Italy">>}

\* the contents of locations.json the process may find when it starts (an
\* empty set: no file)
StartFiles == {{}, {"Paris, France"}, {"Osaka, Japan", "Tokyo, Japan"}}

\* the locations Nominatim may have no coordinates for
UnknownLocations == {{}, {"Rome, Italy"}, {"Berlin, Germany", "New York, USA"}}

\* geolocalization.go:169-193  fetchSingleCoordinate: err is nil unless the
\* answer holds no coordinates for the location
fetchSingleCoordinate(g, loc) == loc \notin g.unknown

\* the variables no goroutine of this section touches
GeoFrame ==
    UNCHANGED <<Status, store, endpoint, upstream, ipc, ch, errors, recvd, closed, ret,
                task, pre, procVars, directVars, slept, records,
                statusMutex, acc, written, call, req, env, prev, lookups, srch>>

\* main.go:14, geolocalization.go:55-72  services.InitGeoCache(): loadCache
\* decodes the file, if there is one, into geoCache
InitGeoCache ==
    /\ ~exited
    /\ mainPc = "m14"
    /\ geo' = [geo EXCEPT !.pc = "ready", !.cache = geo.file]
    /\ mainPc' = "m16"
    /\ UNCHANGED <<Status, store, endpoint, upstream, ipc, ch, errors, recvd, closed, ret,
                   task, pre, startupPc, refreshPc, branch, exited, directVars, slept,
                   records, statusMutex, acc, written, call, req, env, prev, lookups, srch>>

\* geolocalization.go:75-77  saveCache: the cache marshalled under the read lock
Marshal(g) == g.cache

\* geolocalization.go:81  os.WriteFile(cacheFile, data, 0644)
WriteFile(g, data) == data

\* geolocalization.go:163  go saveCache(): one more goroutine, not yet run
GoSaveCache(savers) == Append(savers, [pc |-> "marshal", data |-> {}])

\* geolocalization.go:141-144  Geocode(locations) is called, for a request
\* the server answers from the loaded data
GeocodeCall ==
    /\ ~exited
    /\ geo.pc = "ready"
    /\ mainPc = "serving"
    /\ Status.IsLoaded
    /\ geo.gc.pc = "idle"
    /\ geo.gc.calls < MaxGeocodes
    /\ \E list \in GeocodeLists :
         geo' = [geo EXCEPT !.gc = [pc |-> "check", list |-> list, i |-> 1,
                                    calls |-> geo.gc.calls + 1]]
    /\ GeoFrame

\* geolocalization.go:144-153, 166  the cache is read for the next location
\* under the read lock; after the last location Geocode returns
GeocodeCheck ==
    /\ ~exited
    /\ geo.gc.pc = "check"
    /\ geo' = [geo EXCEPT !.gc =
                 IF geo.gc.i > Len(geo.gc.list) THEN [@ EXCEPT !.pc = "idle"]
                 ELSE IF geo.gc.list[geo.gc.i] \in geo.cache THEN [@ EXCEPT !.i = @ + 1]
                 ELSE [@ EXCEPT !.pc = "fetch"]]
    /\ GeoFrame

\* geolocalization.go:156-164  fetchSingleCoordinate answers or fails; an
\* answer is stored under the write lock and a saveCache goroutine is started
GeocodeFetch ==
    /\ ~exited
    /\ geo.gc.pc = "fetch"
    /\ LET ok == fetchSingleCoordinate(geo, geo.gc.list[geo.gc.i]) IN
         geo' = [geo EXCEPT
                   !.gc = [@ EXCEPT !.pc = "check", !.i = @ + 1],
                   !.cache = IF ok THEN @ \cup {geo.gc.list[geo.gc.i]} ELSE @,
                   !.savers = IF ok THEN GoSaveCache(@) ELSE @]
    /\ GeoFrame

\* geolocalization.go:75-77  a saveCache goroutine marshals the cache
SaverMarshal(n) ==
    /\ ~exited
    /\ geo.savers[n].pc = "marshal"
    /\ geo' = [geo EXCEPT !.savers[n] = [pc |-> "write", data |-> Marshal(geo)]]
    /\ GeoFrame

\* geolocalization.go:79-83  a saveCache goroutine writes what it marshalled
\* and ends
SaverWrite(n) ==
    /\ ~exited
    /\ geo.savers[n].pc = "write"
    /\ geo' = [geo EXCEPT !.file = WriteFile(geo, geo.savers[n].data),
                          !.savers = SubSeq(@, 1, n - 1) \o SubSeq(@, n + 1, Len(@))]
    /\ GeoFrame

\* geolocalization.go:87-101  the goroutine main.go:27 started runs
\* FillCacheBackground: api.All_Relations is read under no lock and the
\* locations of its records are collected; a read that overlaps an assignment
\* to the slice ranges over what the assignment left or ends the process
FillStart ==
    /\ ~exited
    /\ geo.fill.pc = "start"
    /\ \E x \in ReadField("Relations"), crash \in BOOLEAN :
         IF x = Torn /\ crash
         THEN exited' = TRUE /\ UNCHANGED geo
         ELSE /\ geo' = [geo EXCEPT !.fill =
                          [IdleFill EXCEPT !.pc = "next",
                                           !.todo = uniqueLocs(IF x = Torn THEN store["Relations"]
                                                               ELSE x, records)]]
              /\ UNCHANGED exited
    /\ UNCHANGED <<Status, store, endpoint, upstream, ipc, ch, errors, recvd, closed, ret,
                   task, pre, mainPc, startupPc, refreshPc, branch, directVars, slept,
                   records, statusMutex, acc, written, call, req, env, prev, lookups, srch>>

\* geolocalization.go:103-111  the next location of the map, in any order,
\* is looked up under the read lock; 134-137 after the last one the final
\* save, if dirty
FillNext ==
    /\ ~exited
    /\ geo.fill.pc = "next"
    /\ IF geo.fill.todo = {}
       THEN geo' = [geo EXCEPT !.fill.pc = IF geo.fill.dirty THEN "finalMarshal" ELSE "done"]
       ELSE \E loc \in geo.fill.todo :
              geo' = [geo EXCEPT !.fill =
                        [@ EXCEPT !.todo = @ \ {loc}, !.loc = loc,
                                  !.pc = IF loc \in geo.cache THEN "next" ELSE "fetch"]]
    /\ GeoFrame

\* geolocalization.go:114-131  fetchSingleCoordinate answers or fails; an
\* answer is stored under the write lock, and every SaveEvery-th is saved
FillFetch ==
    /\ ~exited
    /\ geo.fill.pc = "fetch"
    /\ LET ok == fetchSingleCoordinate(geo, geo.fill.loc) IN
         geo' = [geo EXCEPT
                   !.cache = IF ok THEN @ \cup {geo.fill.loc} ELSE @,
                   !.fill = IF ok
                            THEN [@ EXCEPT !.dirty = TRUE, !.count = @ + 1,
                                           !.pc = IF (geo.fill.count + 1) % SaveEvery = 0
                                                  THEN "marshal" ELSE "next"]
                            ELSE [@ EXCEPT !.pc = "next"]]
    /\ GeoFrame

\* geolocalization.go:126, 135 with 75-77  saveCache called by
\* FillCacheBackground marshals the cache
FillMarshal ==
    /\ ~exited
    /\ geo.fill.pc \in {"marshal", "finalMarshal"}
    /\ geo' = [geo EXCEPT !.fill = [@ EXCEPT !.data = Marshal(geo),
                                             !.pc = IF @ = "marshal" THEN "write"
                                                    ELSE "finalWrite"]]
    /\ GeoFrame

\* geolocalization.go:126-127, 135 with 79-82  saveCache writes the file;
\* after a periodic save dirty is false and the loop goes on
FillWrite ==
    /\ ~exited
    /\ geo.fill.pc \in {"write", "finalWrite"}
    /\ geo' = [geo EXCEPT !.file = WriteFile(geo, geo.fill.data),
                          !.fill = IF @.pc = "write"
                                   THEN [@ EXCEPT !.dirty = FALSE, !.pc = "next"]
                                   ELSE [@ EXCEPT !.pc = "done"]]
    /\ GeoFrame

\* geolocalization.go:87-138  the steps of the goroutine that runs
\* FillCacheBackground
FillStep ==
    \/ FillStart
    \/ FillNext
    \/ FillFetch
    \/ FillMarshal
    \/ FillWrite

-----------------------------------------------------------------------------
(* The process: main, its startup goroutine and RefreshData *)

\* a first status that does not say Loading
InitialStatusFailed == SetLoadingStatus(FALSE, FALSE, TRUE)

\* main.go:16  api.SetLoadingStatus(true, false, false)
InitialStatus == SetLoadingStatus(TRUE, FALSE, FALSE)

MainSetLoading ==
    /\ ~exited
    /\ mainPc = "m16"
    /\ Status' = InitialStatus
    /\ mainPc' = "m18"
    /\ UNCHANGED <<store, endpoint, upstream, ipc, ch, errors, recvd, closed, ret, task, pre>>
    /\ UNCHANGED <<startupPc, refreshPc, branch, exited, directVars>>
    /\ UNCHANGED <<slept, records, sideVars>>

\* main.go:18  go func() { ... }()
MainGoStartup ==
    /\ ~exited
    /\ mainPc = "m18"
    /\ startupPc' = "s19"
    /\ mainPc' = "m31"
    /\ UNCHANGED <<Status, store, endpoint, upstream, ipc, ch, errors, recvd, closed, ret, task, pre>>
    /\ UNCHANGED <<refreshPc, branch, exited, directVars>>
    /\ UNCHANGED <<slept, records, sideVars>>

\* main.go:31  go api.RefreshData(); main goes on to serve requests
MainGoRefresh ==
    /\ ~exited
    /\ mainPc = "m31"
    /\ refreshPc' = "r256"
    /\ mainPc' = "serving"
    /\ UNCHANGED <<Status, store, endpoint, upstream, ipc, ch, errors, recvd, closed, ret, task, pre>>
    /\ UNCHANGED <<startupPc, branch, exited, directVars>>
    /\ UNCHANGED <<slept, records, sideVars>>

\* the endpoint behaviours a run of the process may meet: all healthy, all
\* failing, or one kind failing or hanging beside healthy others
ProcEndpoints ==
    {All("healthy"), All("failing")}
    \cup OneSpecial({"failing", "hanging"}, {"healthy"})

\* the endpoint behaviours a run meets while requests are served: all
\* healthy, or the artist endpoint failing or hanging beside healthy others
ServeEndpoints ==
    {All("healthy"),
     [All("healthy") EXCEPT !["Artists"] = "failing"],
     [All("healthy") EXCEPT !["Artists"] = "hanging"]}

\* the endpoint behaviours the runs of an execution may meet
Mixes(e) ==
    CASE e = "serving"   -> ServeEndpoints
      [] e = "recovered" -> {All("healthy")}
      [] OTHER           -> ProcEndpoints

\* a run started by the process meets any of the behaviours and the current
\* or the next version of the data
ProcRun(c) ==
    \E e \in Mixes(env) : \E v \in {upstream, upstream + 1} :
        /\ v <= MaxVer
        /\ StartRun(c, e, v)

\* main.go:19  err := api.InitializeData()
StartupCall ==
    /\ ~exited
    /\ startupPc = "s19"
    /\ ProcRun("startup")
    /\ startupPc' = "s19w"
    /\ UNCHANGED <<Status, store, mainPc, refreshPc, branch, exited, directPc>>
    /\ UNCHANGED <<slept, records, sideVars>>

\* main.go:20-22  err != nil: log.Fatalf prints and calls os.Exit(1); the
\* SetLoadingStatus(false, false, true) that follows it is never reached
StartupFatal ==
    /\ ~exited
    /\ startupPc = "s19w"
    /\ ipc["startup"] = "returned"
    /\ ret["startup"] # <<>>
    /\ exited' = TRUE
    /\ startupPc' = "s21"
    /\ ipc' = [ipc EXCEPT !["startup"] = "idle"]
    /\ UNCHANGED <<Status, store, endpoint, upstream, ch, errors, recvd, closed, ret, task, pre>>
    /\ UNCHANGED <<mainPc, refreshPc, branch, directVars>>
    /\ UNCHANGED <<slept, records, sideVars>>

\* main.go:23-27  err == nil: SetLoadingStatus(false, true, false), then
\* go services.FillCacheBackground()
StartupLoaded ==
    /\ ~exited
    /\ startupPc = "s19w"
    /\ ipc["startup"] = "returned"
    /\ ret["startup"] = <<>>
    /\ Status' = SetLoadingStatus(FALSE, TRUE, FALSE)
    /\ req' = Observe(req, Status')
    /\ geo' = [geo EXCEPT !.fill.pc = "start"]
    /\ startupPc' = "done"
    /\ ipc' = [ipc EXCEPT !["startup"] = "idle"]
    /\ UNCHANGED <<store, endpoint, upstream, ch, errors, recvd, closed, ret, task, pre>>
    /\ UNCHANGED <<mainPc, refreshPc, branch, exited, directVars>>
    /\ UNCHANGED <<slept, records, statusMutex, acc, written, call, env, prev, lookups, srch>>

\* api.go:256  GetLoadingStatus(), its value dropped
RefreshEnter ==
    /\ ~exited
    /\ refreshPc = "r256"
    /\ refreshPc' = "r258"
    /\ UNCHANGED <<Status, store, endpoint, upstream, ipc, ch, errors, recvd, closed, ret, task, pre>>
    /\ UNCHANGED <<mainPc, startupPc, branch, exited, directVars>>
    /\ UNCHANGED <<slept, records, sideVars>>

\* a first test that looks at the wrong flag
SpinsWhileFailed(s) == s.HasFailed

\* api.go:258  GetLoadingStatus().IsLoading
SpinsWhile(s) == s.IsLoading

\* api.go:258  if GetLoadingStatus().IsLoading { continue }
RefreshCheckLoading ==
    /\ ~exited
    /\ refreshPc = "r258"
    /\ refreshPc' = IF SpinsWhile(GetLoadingStatus) THEN "r258" ELSE "r260"
    /\ UNCHANGED <<Status, store, endpoint, upstream, ipc, ch, errors, recvd, closed, ret, task, pre>>
    /\ UNCHANGED <<mainPc, startupPc, branch, exited, directVars>>
    /\ UNCHANGED <<slept, records, sideVars>>

\* api.go:260  else if GetLoadingStatus().IsLoaded
RefreshCheckLoaded ==
    /\ ~exited
    /\ refreshPc = "r260"
    /\ IF GetLoadingStatus.IsLoaded
       THEN refreshPc' = "sleep" /\ branch' = "loaded"
       ELSE refreshPc' = "r272" /\ UNCHANGED branch
    /\ UNCHANGED <<Status, store, endpoint, upstream, ipc, ch, errors, recvd, closed, ret, task, pre>>
    /\ UNCHANGED <<mainPc, startupPc, exited, directVars>>
    /\ UNCHANGED <<slept, records, sideVars>>

\* api.go:272  else if GetLoadingStatus().HasFailed; otherwise loop again
RefreshCheckFailed ==
    /\ ~exited
    /\ refreshPc = "r272"
    /\ IF GetLoadingStatus.HasFailed
       THEN refreshPc' = "sleep" /\ branch' = "failed"
       ELSE refreshPc' = "r258" /\ UNCHANGED branch
    /\ UNCHANGED <<Status, store, endpoint, upstream, ipc, ch, errors, recvd, closed, ret, task, pre>>
    /\ UNCHANGED <<mainPc, startupPc, exited, directVars>>
    /\ UNCHANGED <<slept, records, sideVars>>

\* a scheduler that retries at the fast cadence whatever it observed
SleepAlwaysShort(b) == RetryInterval

\* api.go:261 time.Sleep(24 * time.Hour) in the IsLoaded branch,
\* api.go:273 time.Sleep(1 * time.Second) in the HasFailed branch
SleepFor(b) == IF b = "loaded" THEN RefreshInterval ELSE RetryInterval

\* api.go:261 / api.go:273  time.Sleep
RefreshSleep ==
    /\ ~exited
    /\ refreshPc = "sleep"
    /\ runs < MaxRefresh + 1
    /\ refreshPc' = "setLoading"
    /\ slept' = Append(slept, SleepFor(branch))
    /\ UNCHANGED <<Status, store, endpoint, upstream, ipc, ch, errors, recvd, closed, ret, task, pre>>
    /\ UNCHANGED <<mainPc, startupPc, branch, exited, directVars>>
    /\ UNCHANGED <<records, sideVars>>

\* a scheduler that leaves the status as it found it when it starts a run
StatusBeforeRunKept(s) == s

\* api.go:263 / api.go:275  SetLoadingStatus(true, false, false)
StatusBeforeRun(s) == SetLoadingStatus(TRUE, FALSE, FALSE)

RefreshSetLoading ==
    /\ ~exited
    /\ refreshPc = "setLoading"
    /\ Status' = StatusBeforeRun(Status)
    /\ refreshPc' = "call"
    /\ UNCHANGED <<store, endpoint, upstream, ipc, ch, errors, recvd, closed, ret, task, pre>>
    /\ UNCHANGED <<mainPc, startupPc, branch, exited, directVars>>
    /\ UNCHANGED <<slept, records, sideVars>>

\* api.go:264 / api.go:276  err := InitializeData()
RefreshCall ==
    /\ ~exited
    /\ refreshPc = "call"
    /\ ProcRun("refresh")
    /\ refreshPc' = "wait"
    /\ UNCHANGED <<Status, store, mainPc, startupPc, branch, exited, directPc>>
    /\ UNCHANGED <<slept, records, sideVars>>

\* a record of Loaded whatever the run returned
StatusAfterRunLoaded(err) == SetLoadingStatus(FALSE, TRUE, FALSE)

\* a record of the result that does not clear the flag of the other outcome
StatusAfterRunBoth(err) ==
    IF err # <<>> THEN SetLoadingStatus(FALSE, TRUE, TRUE)
    ELSE SetLoadingStatus(FALSE, TRUE, FALSE)

\* api.go:265-271 / api.go:277-283  the status a finished run is recorded as
StatusAfterRun(err) ==
    IF err # <<>> THEN SetLoadingStatus(FALSE, FALSE, TRUE)
    ELSE SetLoadingStatus(FALSE, TRUE, FALSE)

\* api.go:265-271 / api.go:277-283  record the result and loop again
RefreshRecord ==
    /\ ~exited
    /\ refreshPc = "wait"
    /\ ipc["refresh"] = "returned"
    /\ Status' = StatusAfterRun(ret["refresh"])
    /\ req' = Observe(req, Status')
    /\ refreshPc' = "r258"
    /\ branch' = "none"
    /\ slept' = <<>>
    /\ ipc' = [ipc EXCEPT !["refresh"] = "idle"]
    /\ UNCHANGED <<store, endpoint, upstream, ch, errors, recvd, closed, ret, task, pre>>
    /\ UNCHANGED <<mainPc, startupPc, exited, directVars>>
    /\ UNCHANGED <<records, statusMutex, acc, written, call, env, prev, lookups, srch, geo>>

\* the process before main's first statement
InitProc ==
    /\ InitRun
    /\ endpoint = All("healthy")
    /\ mainPc = "m14" /\ startupPc = "off" /\ refreshPc = "off" /\ branch = "none"
    /\ directPc = "off"
    /\ env = "upstream"

\* main, the startup goroutine, RefreshData and the goroutines of the runs
NextMain ==
    \/ InitGeoCache
    \/ MainSetLoading
    \/ MainGoStartup
    \/ MainGoRefresh
    \/ StartupCall
    \/ StartupFatal
    \/ StartupLoaded
    \/ RefreshEnter
    \/ RefreshCheckLoading
    \/ RefreshCheckLoaded
    \/ RefreshCheckFailed
    \/ RefreshSleep
    \/ RefreshSetLoading
    \/ RefreshCall
    \/ RefreshRecord
    \/ RunStep

\* the process without its HTTP server: NextMain and the goroutine that
\* fills the geocode cache
NextProc ==
    \/ NextMain
    \/ FillStep

SpecProc == InitProc /\ [][NextProc]_vars

-----------------------------------------------------------------------------
(* The process, its endpoints recovering at some time, under a fair scheduler *)

\* from now on every endpoint answers every request with 200 and a valid
\* body, the requests of a run in flight included
Recover ==
    /\ env = "upstream"
    /\ runs < MaxRefresh + 1
    /\ env' = "recovered"
    /\ endpoint' = All("healthy")
    /\ UNCHANGED <<Status, store, upstream, ipc, ch, errors, recvd, closed, ret, task, pre>>
    /\ UNCHANGED <<procVars, directVars>>
    /\ UNCHANGED <<slept, records, statusMutex, acc, written, call, req, prev, lookups, srch, geo>>

NextRecover ==
    \/ NextMain
    \/ Recover

\* the Go scheduler runs every goroutine that stays runnable: main, the
\* startup goroutine, RefreshData and the goroutines of the runs
ProcFairness ==
    /\ WF_vars(InitGeoCache \/ MainSetLoading \/ MainGoStartup \/ MainGoRefresh)
    /\ WF_vars(StartupCall \/ StartupFatal \/ StartupLoaded)
    /\ WF_vars(RefreshEnter \/ RefreshCheckLoading \/ RefreshCheckLoaded
                 \/ RefreshCheckFailed \/ RefreshSleep \/ RefreshSetLoading
                 \/ RefreshCall \/ RefreshRecord)
    /\ RunFairness

SpecRecover == InitProc /\ [][NextRecover]_vars /\ ProcFairness

-----------------------------------------------------------------------------
(* The Status Register under concurrent callers *)

\* the package's variables before any call: Status is the zero LoadingStatus
InitStatus ==
    /\ InitRun
    /\ endpoint = All("healthy")
    /\ mainPc = "off" /\ startupPc = "off" /\ refreshPc = "off" /\ branch = "none"
    /\ directPc = "off"
    /\ env = "none"

NextStatus ==
    \E a \in Accessors :
        \/ \E x \in Triples : SetCall(a, x)
        \/ SetLock(a)
        \/ SetWrite(a)
        \/ SetUnlock(a)
        \/ GetCall(a)
        \/ GetRLock(a)
        \/ GetCopy(a)
        \/ GetRUnlock(a)

SpecStatus == InitStatus /\ [][NextStatus]_vars

-----------------------------------------------------------------------------
(* One call of a Fetch<k>WithContext function *)

\* the package's variables before any call
InitFetch ==
    /\ InitRun
    /\ endpoint = All("erratic")
    /\ mainPc = "off" /\ startupPc = "off" /\ refreshPc = "off" /\ branch = "none"
    /\ directPc = "off"
    /\ env = "none"

\* a goroutine calls Fetch<k>WithContext(ctx), `elapsed` seconds after ctx was
\* created; the endpoint, which serves version v of the data, will meet the
\* request with response r
FetchCall ==
    /\ call.pc = "none"
    /\ \E k \in Kinds : \E r \in Responses : \E e \in {0, SlowDelay} : \E v \in 1..MaxVer :
         call' = [NoCall EXCEPT !.pc = "called", !.k = k, !.r = r, !.elapsed = e, !.v = v]
    /\ UNCHANGED <<Status, store, endpoint, upstream, ipc, ch, errors, recvd, closed, ret, task, pre>>
    /\ UNCHANGED <<procVars, directVars, slept, records, statusMutex, acc, written, req, env, prev, lookups, srch, geo>>

\* api.go:147-235  the function runs and returns
FetchReturn ==
    /\ call.pc = "called"
    /\ call' = [call EXCEPT !.pc = "returned",
                            !.out = FetchWithContext(call.k, call.r, call.elapsed, call.v)]
    /\ UNCHANGED <<Status, store, endpoint, upstream, ipc, ch, errors, recvd, closed, ret, task, pre>>
    /\ UNCHANGED <<procVars, directVars, slept, records, statusMutex, acc, written, req, env, prev, lookups, srch, geo>>

NextFetch ==
    \/ FetchCall
    \/ FetchReturn

SpecFetch == InitFetch /\ [][NextFetch]_vars

-----------------------------------------------------------------------------
(* Searching a catalogue of artists (package search)                       *)

\* search.go:14-15  the SearchMethod values
MethodContains == 0
MethodPrefix == 1

\* strings.HasPrefix
HasPrefix(s, p) == Len(p) <= Len(s) /\ SubSeq(s, 1, Len(p)) = p

\* strings.Contains(s, sub) for a string sub
ContainsString(s, sub) ==
    \E i \in 0..(Len(s) - Len(sub)) : SubSeq(s, i + 1, i + Len(sub)) = sub

\* strconv.Itoa
RECURSIVE Itoa(_)
Itoa(n) ==
    IF n < 0 THEN "-" \o Itoa(0 - n)
    ELSE IF n < 10 THEN Char(Digits, n + 1)
    ELSE Itoa(n \div 10) \o Char(Digits, (n % 10) + 1)

\* the sequences of a sequence of sequences, one after the other
RECURSIVE Concat(_)
Concat(seqs) == IF seqs = <<>> THEN <<>> ELSE Head(seqs) \o Concat(Tail(seqs))

\* search.go:151  normalize: lower case, without - , space . _ :
normalize(s) ==
    ReplaceAll(ReplaceAll(ReplaceAll(ReplaceAll(ReplaceAll(ReplaceAll(
        ToLower(s), "-", ""), ",", ""), " ", ""), ".", ""), "_", ""), ":", "")

\* search.go:33-47 (and 52-66, 70-84, 87-101, 111-125, 128-142)  what one
\* comparison appends: a prefix match, else a contains match, else nothing
MatchText(text, q, label, id, category) ==
    IF HasPrefix(text, q)
    THEN <<[Label |-> label, ID |-> id, Category |-> category, Method |-> MethodPrefix]>>
    ELSE IF ContainsString(text, q)
    THEN <<[Label |-> label, ID |-> id, Category |-> category, Method |-> MethodContains]>>
    ELSE <<>>

\* MatchText for every word of the sequence parts, in order
MatchParts(parts, q, label, id, category) ==
    Concat([i \in 1..Len(parts) |-> MatchText(parts[i], q, label, id, category)])

\* search.go:107-145  the results from an artist's relation: for every
\* location of SortedLocations and every date of it, the date and then the
\* words of the normalized location
SearchRelation(searchQuery, artist, rel) ==
    Concat([l \in 1..Len(rel.SortedLocations) |->
        LET loc == rel.SortedLocations[l]
            dates == IF loc \in DOMAIN rel.DatesLocations
                     THEN rel.DatesLocations[loc] ELSE <<>>
        IN  Concat([d \in 1..Len(dates) |->
                MatchText(dates[d], searchQuery,
                          dates[d] \o " - Concert date at " \o loc \o " for " \o artist.Name,
                          artist.ID, "concert")
                \o MatchParts(Fields(ToLower(normalize(loc))), normalize(searchQuery),
                              loc \o " - Concert location on " \o dates[d]
                                  \o " for " \o artist.Name,
                              artist.ID, "concert")])])

\* search.go:31-101  the results from an artist's own fields: name, members,
\* first album, creation date
SearchFields(searchQuery, artist) ==
    MatchParts(Fields(ToLower(artist.Name)), searchQuery,
               artist.Name \o " - Artist/Band", artist.ID, "artist")
    \o Concat([m \in 1..Len(artist.Members) |->
          MatchParts(Fields(ToLower(artist.Members[m])), searchQuery,
                     artist.Members[m] \o " - Member of " \o artist.Name,
                     artist.ID, "member")])
    \o MatchText(artist.FirstAlbum, searchQuery,
                 artist.FirstAlbum \o " - First Album of " \o artist.Name,
                 artist.ID, "first_album")
    \o MatchText(Itoa(artist.CreationDate), searchQuery,
                 Itoa(artist.CreationDate) \o " - Creation Date of " \o artist.Name,
                 artist.ID, "creation_date")

\* search.go:30-146  the results one artist contributes: its own fields, and
\* the relation unless getRelations fails
SearchArtist(searchQuery, artist, getRelations) ==
    SearchFields(searchQuery, artist)
    \o (IF getRelations[artist.ID].err THEN <<>>
        ELSE SearchRelation(searchQuery, artist, getRelations[artist.ID].rel))

\* search.go:27  SearchAll: the SearchResult values, in the order appended
SearchAll(query, artists, getRelations) ==
    Concat([a \in 1..Len(artists) |-> SearchArtist(ToLower(query), artists[a], getRelations)])

\* search.go:177  ParseQuery
ParseQuery(query) == Fields(ToLower(query))

\* r moved left from the end of rs past the results of a smaller Method
RECURSIVE InsertResult(_, _)
InsertResult(rs, r) ==
    IF rs = <<>> THEN <<r>>
    ELSE IF r.Method > rs[Len(rs)].Method
    THEN InsertResult(SubSeq(rs, 1, Len(rs) - 1), r) \o <<rs[Len(rs)]>>
    ELSE rs \o <<r>>

\* insertion sort: results of one Method stay in their order
RECURSIVE InsertionSort(_)
InsertionSort(results) ==
    IF results = <<>> THEN <<>>
    ELSE InsertResult(InsertionSort(SubSeq(results, 1, Len(results) - 1)),
                      results[Len(results)])

\* the orders of the elements of a sequence
RECURSIVE Orders(_)
Orders(seq) ==
    IF seq = <<>> THEN {<<>>}
    ELSE UNION {{<<seq[i]>> \o o :
                   o \in Orders(SubSeq(seq, 1, i - 1) \o SubSeq(seq, i + 1, Len(seq)))} :
                i \in 1..Len(seq)}

\* search.go:182  SortResults: the orders sort.Slice(results, Method larger
\* first) may leave the results in. sort.Slice is not stable: it sorts a
\* slice of at most 12 elements by insertion, which keeps the results of one
\* Method in their order, and promises of a longer one only that no result
\* comes before one of a larger Method
SortResults(results) ==
    IF Len(results) <= 12 THEN {InsertionSort(results)}
    ELSE {p \o c :
            p \in Orders(SelectSeq(results, LAMBDA r : r.Method = MethodPrefix)),
            c \in Orders(SelectSeq(results, LAMBDA r : r.Method = MethodContains))}

\* search.go:196-203  what one token group adds to idTokenCount[id], counting
\* every result of the group
GroupCountEvery(results, id) == Cardinality({i \in 1..Len(results) : results[i].ID = id})

\* search.go:196-203  what one token group adds to idTokenCount[id]: one, if
\* the id is in the group, however often (the map seen)
GroupCount(results, id) == IF \E i \in 1..Len(results) : results[i].ID = id THEN 1 ELSE 0

\* search.go:194-204  idTokenCount[id] after all token groups
RECURSIVE idTokenCount(_, _)
idTokenCount(tokenResults, id) ==
    IF tokenResults = <<>> THEN 0
    ELSE GroupCount(Head(tokenResults), id) + idTokenCount(Tail(tokenResults), id)

\* search.go:207-212  the ids counted in as many groups as there are
validIDs(tokenResults) ==
    {id \in {r.ID : r \in UNION {{g[i] : i \in 1..Len(g)} :
                                   g \in {tokenResults[n] : n \in 1..Len(tokenResults)}}} :
        idTokenCount(tokenResults, id) = Len(tokenResults)}

\* search.go:189  MatchResults
MatchResults(tokenResults) ==
    IF Len(tokenResults) = 0 THEN <<>>
    ELSE SelectSeq(Concat(tokenResults), LAMBDA r : r.ID \in validIDs(tokenResults))

\* search.go:226  RemoveDuplicates: the first result of every Label
RECURSIVE RemoveDuplicates(_)
RemoveDuplicates(results) ==
    IF results = <<>> THEN <<>>
    ELSE LET front == RemoveDuplicates(SubSeq(results, 1, Len(results) - 1))
             r == results[Len(results)]
         IN  IF \E i \in 1..Len(front) : front[i].Label = r.Label
             THEN front ELSE front \o <<r>>

\* search.go:241  Search: one token is searched for alone; several are
\* searched for one by one, matched, sorted and freed of duplicates. The
\* slices the call may return
Search(query, artists, getRelations) ==
    LET tokens == ParseQuery(query) IN
    IF Len(tokens) = 1
    THEN {SearchAll(tokens[1], artists, getRelations)}
    ELSE {RemoveDuplicates(sorted) :
            sorted \in SortResults(MatchResults(
                [t \in 1..Len(tokens) |-> SearchAll(tokens[t], artists, getRelations)]))}

\* search.go:270-288, 359-388  the artists and relations of the package's tests
Queen ==
    [ID |-> 1, Name |-> "Queen", Members |-> <<"Freddie Mercury", "Roger Taylor">>,
     CreationDate |-> 1970, FirstAlbum |-> "14-12-1973"]

Scorpions ==
    [ID |-> 4, Name |-> "Scorpions", Members |-> <<"Klaus Meine">>,
     CreationDate |-> 1965, FirstAlbum |-> "09-02-1972"]

QueenRelations ==
    [ID |-> 1, SortedLocations |-> <<"Osaka, Japan">>,
     DatesLocations |-> [loc \in {"Osaka, Japan"} |-> <<"28-01-2020">>]]

ScorpionsRelations ==
    [ID |-> 4, SortedLocations |-> <<"Queensland, Australia">>,
     DatesLocations |-> [loc \in {"Queensland, Australia"} |-> <<"24-02-2020">>]]

\* a getRelations that answers for both artists, and one that fails for Scorpions
RelationsFound ==
    [id \in {1, 4} |-> [err |-> FALSE, rel |-> IF id = 1 THEN QueenRelations
                                                ELSE ScorpionsRelations]]

RelationsMissing == [RelationsFound EXCEPT ![4].err = TRUE]

\* the catalogues searched
Catalogues ==
    <<[artists |-> <<Queen>>, getRelations |-> RelationsFound],
      [artists |-> <<Queen, Scorpions>>, getRelations |-> RelationsFound],
      [artists |-> <<Scorpions, Queen>>, getRelations |-> RelationsMissing],
      [artists |-> <<>>, getRelations |-> RelationsFound]>>

\* the words of the queries, and the queries: no word, one word, MaxTokens words
SearchWords == {"Queen", "mercury", "o", "japan", "19", "me", "x"}

RECURSIVE QueriesOf(_)
QueriesOf(n) ==
    IF n = 0 THEN {"", "  "}
    ELSE IF n = 1 THEN SearchWords \cup {" " \o w \o " " : w \in SearchWords}
    ELSE {q \o " " \o w : q \in QueriesOf(n - 1), w \in SearchWords}

SearchQueries == UNION {QueriesOf(n) : n \in 0..MaxTokens}

\* search.go:359-388  the results token groups are made of
ResultPool ==
    {[Label |-> "Osaka, Japan - Concert location on 28-01-2020 for Queen",
      ID |-> 1, Category |-> "location", Method |-> MethodContains],
     [Label |-> "Queensland, Australia - Concert location on 24-02-2020 for Scorpions",
      ID |-> 4, Category |-> "location", Method |-> MethodPrefix]}

\* token groups of at most MaxGroupLen results, and the sequences of n of them
ResultGroups == UNION {[1..n -> ResultPool] : n \in 0..MaxGroupLen}

TokenResults(n) == [1..n -> ResultGroups]

\* a call Search(query, artists, getRelations)
CallSearch ==
    /\ srch.op = "none"
    /\ \E q \in SearchQueries, c \in 1..Len(Catalogues) :
         \E out \in Search(q, Catalogues[c].artists, Catalogues[c].getRelations) :
           srch' = [op |-> "Search", query |-> q, cat |-> c, groups |-> <<>>, out |-> out]
    /\ UNCHANGED <<Status, store, endpoint, upstream, ipc, ch, errors, recvd, closed, ret,
                   task, pre, procVars, directVars, slept, records>>
    /\ UNCHANGED <<statusMutex, acc, written, call, req, env, prev, lookups, geo>>

\* search.go:407  a call MatchResults(results)
CallMatchResults ==
    /\ srch.op = "none"
    /\ \E n \in 0..MaxGroups : \E gs \in TokenResults(n) :
         srch' = [op |-> "MatchResults", query |-> "", cat |-> 0, groups |-> gs,
                  out |-> MatchResults(gs)]
    /\ UNCHANGED <<Status, store, endpoint, upstream, ipc, ch, errors, recvd, closed, ret,
                   task, pre, procVars, directVars, slept, records>>
    /\ UNCHANGED <<statusMutex, acc, written, call, req, env, prev, lookups, geo>>

InitSearch ==
    /\ InitRun
    /\ endpoint = All("healthy")
    /\ mainPc = "off" /\ startupPc = "off" /\ refreshPc = "off" /\ branch = "none"
    /\ directPc = "off"
    /\ env = "none"

NextSearch ==
    \/ CallSearch
    \/ CallMatchResults

SpecSearch == InitSearch /\ [][NextSearch]_vars

-----------------------------------------------------------------------------
(* Lookups (package services) and request handlers (package handlers) *)

\* net/http status codes the handlers answer with
StatusSeeOther == 303
StatusNotFound == 404
StatusMethodNotAllowed == 405

\* services.go:13-38  the loop of Get<k>ByID over the slice value read as x
Found(x, id) == x # Nil /\ x # Torn /\ id \in ArtistIDs

\* api.All_Artists when its slice value is x: the artists of every version
\* of the upstream data
ArtistsOf(x) == IF x = Nil \/ x = Torn THEN <<>> ELSE <<Queen>>

\* the search queries of the requests: none, the name of the artist, a word
\* of a concert location, a word nothing matches
RequestQueries == {"", "Queen", "york", "zz"}

\* search.go:29-101 for the requests' queries on the artists of the served
\* data, computed once
FieldsFound ==
    [q \in RequestQueries |->
        Concat([a \in 1..Len(ArtistsOf(1)) |-> SearchFields(ToLower(q), ArtistsOf(1)[a])])]

\* search.go:107-145 for the requests' queries on the records of the served
\* data, computed once
RelationFound ==
    [q \in RequestQueries |->
        [rel \in ServedRelations |-> SearchRelation(ToLower(q), Queen, rel)]]

\* the requests that arrive: the handler the mux picks, whether the request
\* passes the handler's path and method checks or which one it fails, the
\* artist id of the path, the search query
Requests ==
    {in \in [h : {"HomeHandler", "ArtistDetailsHandler", "LoadingHandler", "SearchHandler"},
             check : {"ok", "path", "method"}, id : {1, 2}, query : RequestQueries] :
        /\ in.h = "LoadingHandler" => in.check = "ok"
        /\ in.h = "SearchHandler" => in.check # "path"
        /\ in.h # "ArtistDetailsHandler" => in.id = 1
        /\ in.h \in {"ArtistDetailsHandler", "LoadingHandler"} => in.query = ""
        /\ in.check # "ok" => in.id = 1 /\ in.query = ""}

\* the request is answered
Respond(code, page) ==
    req' = [req EXCEPT !.pc = "done", !.code = code, !.page = page, !.query = "",
                       !.loaded = FALSE]

\* a panic in the handler: net/http recovers it and closes the connection
Panic == Respond(0, "panic")

serveFrame ==
    UNCHANGED <<Status, store, endpoint, upstream, ipc, ch, errors, recvd, closed, ret, task,
                pre, procVars, directVars, slept, statusMutex, acc, written, call, env, prev, lookups, srch, geo>>

\* part_001:131-139, 187-195, 268-273, 297-307  net/http starts the handler
\* of an arriving request; the checks of path, method and query, which read
\* no shared variable
Arrive ==
    /\ ~exited
    /\ mainPc = "serving"
    /\ req.pc \in {"idle", "done"}
    /\ \E in \in Requests :
         LET r == [IdleRequest EXCEPT !.h = in.h, !.id = in.id] IN
         req' =
           CASE in.check = "path" ->
                  [r EXCEPT !.pc = "done", !.code = StatusNotFound, !.page = "error"]
             [] in.check = "method" ->
                  [r EXCEPT !.pc = "done", !.code = StatusMethodNotAllowed, !.page = "error"]
             [] in.check = "ok" /\ in.h = "SearchHandler" /\ in.query = "" ->
                  [r EXCEPT !.pc = "done", !.code = StatusOK, !.page = "json"]
             [] in.check = "ok" /\ in.h = "SearchHandler" /\ in.query # "" ->
                  [r EXCEPT !.pc = "searchArtists", !.query = in.query]
             [] in.check = "ok" /\ in.h = "LoadingHandler" -> [r EXCEPT !.pc = "l269"]
             [] OTHER -> Observe([r EXCEPT !.pc = "checkLoading", !.query = in.query],
                                 Status)
    /\ UNCHANGED records
    /\ serveFrame

\* part_001:140, 196  if api.GetLoadingStatus().IsLoading { http.Redirect(..."/loading?requested="...) }
CheckLoading ==
    /\ ~exited
    /\ req.pc = "checkLoading"
    /\ IF GetLoadingStatus.IsLoading
       THEN Respond(StatusSeeOther, "to loading")
       ELSE req' = [req EXCEPT !.pc = "checkFailed"]
    /\ UNCHANGED records
    /\ serveFrame

\* part_001:143, 199  else if api.GetLoadingStatus().HasFailed { HandleErrors(500) }
CheckFailed ==
    /\ ~exited
    /\ req.pc = "checkFailed"
    /\ IF GetLoadingStatus.HasFailed
       THEN Respond(StatusInternalServerError, "error")
       ELSE req' = [req EXCEPT !.pc =
                      IF req.h = "ArtistDetailsHandler" THEN "getArtist"
                      ELSE IF req.query # "" THEN "searchArtists" ELSE "index"]
    /\ UNCHANGED records
    /\ serveFrame

\* part_001:150, 308  search.SearchAll(query, api.All_Artists, ...): the
\* argument api.All_Artists is read; search.go:29-101 the artists' own fields
\* are matched
SearchArtists ==
    /\ ~exited
    /\ req.pc = "searchArtists"
    /\ \E x \in ReadField("Artists") :
         IF x = Torn THEN Panic
         ELSE req' = [req EXCEPT !.pc = "searchRelations",
                                 !.view = [@ EXCEPT !["Artists"] = x],
                                 !.results =
                                     IF ArtistsOf(x) = <<>> THEN <<>>
                                     ELSE FieldsFound[req.query]]
    /\ UNCHANGED records
    /\ serveFrame

\* services.go:40-49  GetRelationsByID(id) on the slice value x: the record
\* found is processed in place
GetRelationsByID(id, x) ==
    IF Found(x, id) /\ id \in DOMAIN records
    THEN \E rel \in (IF records[id] \in ServedRelations
                    THEN ProcessServed[records[id]]
                    ELSE ProcessRelations(records[id])) :
           records' = [records EXCEPT ![id] = rel]
    ELSE UNCHANGED records

\* search.go:103-145  getRelations(artist.ID) for the artists of the slice
\* that was passed and the matches in the relation it returns, then
\* part_001:313-314 (SearchHandler) the JSON answer
SearchRelations ==
    /\ ~exited
    /\ req.pc = "searchRelations"
    /\ \E x \in ReadField("Relations") :
         IF x = Torn /\ req.view["Artists"] # Nil
         THEN Panic /\ UNCHANGED records
         ELSE /\ IF req.view["Artists"] # Nil
                 THEN GetRelationsByID(1, x)
                 ELSE UNCHANGED records
              /\ req' = [req EXCEPT
                           !.results =
                               IF req.view["Artists"] # Nil /\ Found(x, 1) /\ 1 \in DOMAIN records
                               THEN @ \o (IF records'[1] \in ServedRelations
                                          THEN RelationFound[req.query][records'[1]]
                                          ELSE SearchRelation(ToLower(req.query), Queen,
                                                              records'[1]))
                               ELSE @,
                           !.view = [@ EXCEPT !["Relations"] =
                                       IF req.view["Artists"] # Nil THEN x ELSE Nil],
                           !.pc = IF req.h = "SearchHandler" THEN "done" ELSE "index",
                           !.query = IF req.h = "SearchHandler" THEN "" ELSE @,
                           !.code = IF req.h = "SearchHandler" THEN StatusOK ELSE 0,
                           !.page = IF req.h = "SearchHandler" THEN "json" ELSE "none"]
    /\ serveFrame

\* part_001:156-184  data.Artists = api.All_Artists, or the artists of the
\* search results looked up with GetArtistByID; index_tmpl.Execute
Index ==
    /\ ~exited
    /\ req.pc = "index"
    /\ \E x \in ReadField("Artists") :
         IF x = Torn THEN Panic
         ELSE req' = [req EXCEPT !.pc = "done", !.code = StatusOK, !.page = "index",
                                 !.query = "", !.view = [NoView EXCEPT !["Artists"] = x],
                                 !.loaded = FALSE]
    /\ UNCHANGED records
    /\ serveFrame

\* the field a lookup step of ArtistDetailsHandler reads
LookupKind(pc) ==
    CASE pc = "getArtist"    -> "Artists"
      [] pc = "getLocations" -> "Locations"
      [] pc = "getDates"     -> "Dates"
      [] pc = "getRelations" -> "Relations"

\* part_001:205-219  services.GetArtistByID, GetLocationsByID, GetDatesByID:
\* 404 when the id is not found
Lookup ==
    /\ ~exited
    /\ req.pc \in {"getArtist", "getLocations", "getDates"}
    /\ \E x \in ReadField(LookupKind(req.pc)) :
         IF x = Torn THEN Panic
         ELSE IF ~Found(x, req.id) THEN Respond(StatusNotFound, "error")
         ELSE req' = [req EXCEPT
                        !.view = [@ EXCEPT ![LookupKind(req.pc)] = x],
                        !.pc = CASE req.pc = "getArtist"    -> "getLocations"
                                 [] req.pc = "getLocations" -> "getDates"
                                 [] req.pc = "getDates"     -> "getRelations"]
    /\ UNCHANGED records
    /\ serveFrame

\* part_001:220-234  services.GetRelationsByID, then artist_tmpl.Execute
LookupRelations ==
    /\ ~exited
    /\ req.pc = "getRelations"
    /\ \E x \in ReadField("Relations") :
         IF x = Torn THEN Panic /\ UNCHANGED records
         ELSE IF ~Found(x, req.id) THEN Respond(StatusNotFound, "error") /\ UNCHANGED records
         ELSE /\ GetRelationsByID(req.id, x)
              /\ req' = [req EXCEPT !.pc = "done", !.code = StatusOK, !.page = "artist",
                                    !.view = [@ EXCEPT !["Relations"] = x],
                                    !.loaded = FALSE]
    /\ serveFrame

\* part_001:268-293  LoadingHandler: one read of the status; redirect to the
\* requested page when loaded, error page when failed, else the waiting page
\* with a Refresh header
LoadingHandler ==
    /\ ~exited
    /\ req.pc = "l269"
    /\ LET status == GetLoadingStatus IN
       IF status.IsLoaded THEN Respond(StatusSeeOther, "to requested")
       ELSE IF status.HasFailed THEN Respond(StatusInternalServerError, "error")
       ELSE Respond(StatusOK, "loading")
    /\ UNCHANGED records
    /\ serveFrame

HandlerStep ==
    \/ Arrive
    \/ CheckLoading
    \/ CheckFailed
    \/ SearchArtists
    \/ SearchRelations
    \/ Index
    \/ Lookup
    \/ LookupRelations
    \/ LoadingHandler

\* the process with its HTTP server
InitServe ==
    /\ InitRun
    /\ endpoint = All("healthy")
    /\ mainPc = "m14" /\ startupPc = "off" /\ refreshPc = "off" /\ branch = "none"
    /\ directPc = "off"
    /\ env = "serving"

NextServe ==
    \/ NextMain
    \/ HandlerStep

SpecServe == InitServe /\ [][NextServe]_vars

-----------------------------------------------------------------------------
(* A caller that stores relations and looks them up (package services)     *)

\* the location names and the date lists of the relations stored
LocationNames ==
    {"new-york-usa", "new_york-usa", "New York, USA", "london-uk", "tokyo"}

DateLists ==
    {<<>>,
     <<"01-01-2020", "15-06-2021">>,
     <<"15-06-2021", "*01-01-2020">>,
     <<"01-01-2020", "2020/01/01">>,
     <<"bad", "01-01-2020", "x">>,
     <<"bad">>,
     <<"03-03-2022">>}

\* the datesLocations maps of at most MaxLocations locations
RelationInputs ==
    UNION {[ks -> DateLists] :
             ks \in {S \in SUBSET LocationNames : Cardinality(S) <= MaxLocations}}

\* part_004:109-112  api.All_Relations = []models.Relations{{ID: 1, DatesLocations: ...}}
SetRelations ==
    /\ store["Relations"] = Nil
    /\ \E dl \in RelationInputs :
         records' = [id \in ArtistIDs |->
                       [ID |-> id, DatesLocations |-> dl, SortedLocations |-> <<>>]]
    /\ store' = [store EXCEPT !["Relations"] = 1]
    /\ UNCHANGED <<Status, endpoint, upstream, ipc, ch, errors, recvd, closed, ret, task, pre>>
    /\ UNCHANGED <<procVars, directVars>>
    /\ UNCHANGED <<slept, sideVars>>

\* part_004:113  rel, err := GetRelationsByID(1), called again and again
LookupAgain ==
    /\ store["Relations"] # Nil
    /\ lookups.n < MaxLookups
    /\ GetRelationsByID(1, store["Relations"])
    /\ lookups' = [n |-> lookups.n + 1,
                   first |-> IF lookups.n = 0 THEN records'[1] ELSE lookups.first]
    /\ UNCHANGED <<Status, store, endpoint, upstream, ipc, ch, errors, recvd, closed, ret,
                   task, pre>>
    /\ UNCHANGED <<procVars, directVars>>
    /\ UNCHANGED <<slept, statusMutex, acc, written, call, req, env, prev, srch, geo>>

InitRelations ==
    /\ InitRun
    /\ endpoint = All("healthy")
    /\ mainPc = "off" /\ startupPc = "off" /\ refreshPc = "off" /\ branch = "none"
    /\ directPc = "off"
    /\ env = "none"

NextRelations ==
    \/ SetRelations
    \/ LookupAgain

SpecRelations == InitRelations /\ [][NextRelations]_vars

-----------------------------------------------------------------------------
(* The process with its geocode cache: main, the startup goroutine, the      *)
(* goroutine that fills the cache, a caller of Geocode and the savers it starts *)

\* the process before main's first statement, with the cache file it may
\* find and the locations Nominatim knows
InitGeo ==
    /\ InitCore
    /\ geo \in {[NoGeo EXCEPT !.file = f, !.unknown = u] :
                  f \in StartFiles, u \in UnknownLocations}
    /\ endpoint = All("healthy")
    /\ mainPc = "m14" /\ startupPc = "off" /\ refreshPc = "off" /\ branch = "none"
    /\ directPc = "off"
    /\ env = "upstream"

\* main, the startup goroutine and its run, and the goroutines that touch the
\* geocode cache; RefreshData, which sleeps 24 hours before it loads again, is
\* launched and takes no step
NextGeo ==
    \/ InitGeoCache
    \/ MainSetLoading
    \/ MainGoStartup
    \/ MainGoRefresh
    \/ StartupCall
    \/ StartupFatal
    \/ StartupLoaded
    \/ RunStep
    \/ FillStep
    \/ GeocodeCall
    \/ GeocodeCheck
    \/ GeocodeFetch
    \/ \E n \in 1..Len(geo.savers) : SaverMarshal(n)
    \/ \E n \in 1..Len(geo.savers) : SaverWrite(n)

SpecGeo == InitGeo /\ [][NextGeo]_vars

-----------------------------------------------------------------------------
(* Properties of one InitializeData call (checked under Spec) *)

\* the goroutine of kind k in caller c's run
T(c, k) == task[c][k]

\* every request kind k's endpoint answers during the current run fails
AlwaysFails(k) ==
    \A a \in 0..maxRetries : \A r \in ResponsesOf(endpoint[k], a, runs) :
        FetchWithContext(k, r, 0, upstream).err # NilErr

\* every request kind k's endpoint answers during the current run succeeds at once
AlwaysHealthy(k) ==
    \A a \in 0..maxRetries : ResponsesOf(endpoint[k], a, runs) = {GoodResponse}

FailingKinds == {k \in Kinds : AlwaysFails(k)}

\* the operations named by the errors a call returned
OpsOf(errs) == {errs[i].op : i \in 1..Len(errs)}

\* C1: when every endpoint either fails on every attempt or is healthy, a
\* finished InitializeData call has returned exactly one error per failing
\* kind (none, i.e. nil, when no kind fails), and the errors name exactly the
\* fetch operations of the failing kinds.
C1_OneErrorPerFailingKind ==
    (ipc["direct"] = "returned" /\ \A k \in Kinds : AlwaysFails(k) \/ AlwaysHealthy(k))
        => /\ Len(ret["direct"]) = Cardinality(FailingKinds)
           /\ OpsOf(ret["direct"]) = {FetchName(k) : k \in FailingKinds}

C1_Witness ==
    /\ ipc["direct"] = "returned"
    /\ FailingKinds = {"Artists"}
    /\ \A k \in Kinds \ {"Artists"} : AlwaysHealthy(k)
    /\ Len(ret["direct"]) = 1
    /\ ret["direct"][1].op = "FetchArtists"

\* C2: during and after an InitializeData call the field of a kind whose
\* fetch has succeeded holds the fetched collection and the field of every
\* other kind (failed, or not finished) holds its pre-call value; this covers
\* the second of two calls in a row, whose pre-call values are what the first
\* call left.
C2_ReplacedOrUntouched ==
    ipc["direct"] # "idle" =>
        \A k \in Kinds :
            IF T("direct", k).pc = "done" /\ T("direct", k).sent = NoError
            THEN store[k] = Decode(k, upstream)
            ELSE store[k] = pre["direct"][k]

C2_Witness ==
    /\ ipc["direct"] = "returned"
    /\ runs = 2
    /\ Len(ret["direct"]) = NumTasks
    /\ \A k \in Kinds : pre["direct"][k] # Nil /\ store[k] = pre["direct"][k]

\* the endpoint of kind k fails the first FlakyFailures requests of the
\* current run and answers the next
FailsTwiceThenAnswers(k) ==
    /\ \A a \in 0..(FlakyFailures - 1) : ResponsesOf(endpoint[k], a, runs) = {NetworkFailure}
    /\ ResponsesOf(endpoint[k], FlakyFailures, runs) = {GoodResponse}

\* C3: a kind whose endpoint fails the first 2 requests of a run and answers
\* the 3rd is reported without error, after 3 attempts, and its field holds
\* the collection a first-attempt success would have stored.
C3_RetryTransparent ==
    ipc["direct"] = "returned" =>
        \A k \in Kinds : FailsTwiceThenAnswers(k) =>
            /\ T("direct", k).sent = NoError
            /\ T("direct", k).fetches = FlakyFailures + 1
            /\ FetchName(k) \notin OpsOf(ret["direct"])
            /\ store[k] = Decode(k, upstream)

C3_Witness ==
    /\ ipc["direct"] = "returned"
    /\ endpoint["Dates"] = "flaky"
    /\ T("direct", "Dates").fetches = 3
    /\ store["Dates"] = Decode("Dates", upstream)
    /\ ret["direct"] = <<>>

\* C4: a fetch goroutine makes at most 3 attempts; one that has succeeded on
\* its k-th attempt has slept k-1 times and attempts nothing more; one whose
\* 3 attempts all failed has slept exactly 2 times.
C4_AttemptsAndSleeps ==
    \A k \in Kinds :
        LET t == T("direct", k) IN
        /\ t.fetches <= maxRetries + 1
        /\ (t.pc = "done" /\ t.sent = NoError) => t.sleeps = t.fetches - 1
        /\ (t.fetches = maxRetries + 1 /\ t.attempt = maxRetries + 1) => t.sleeps = maxRetries
        /\ t.elapsed >= t.sleeps * Backoff

C4_Witness ==
    \E k \in Kinds :
        LET t == T("direct", k) IN
        /\ t.pc = "done"
        /\ t.sent = ExhaustedError(k, NilErr)
        /\ t.fetches = 3
        /\ t.sleeps = 2

\* C5 as claimed: every attempt has a 5-second deadline of its own, which the
\* attempts and backoff sleeps before it do not shorten, so a goroutine stops
\* only after a success or after all 3 attempts have been made.
C5_Original ==
    \A k \in Kinds :
        LET t == T("direct", k) IN
        t.pc = "done" => (t.sent = NoError \/ t.fetches = maxRetries + 1)

\* what the code does instead (api.go:44, 48): all attempts of a goroutine
\* share one 5-second deadline counted from the goroutine's start: an attempt
\* succeeds only if the attempts and backoff sleeps before it and its own
\* latency total less than 5 seconds, and a goroutine stops after a success,
\* after 3 attempts, or when that deadline has passed at the top of the loop,
\* reporting a timeout without another fetch.
SharedDeadline ==
    \A k \in Kinds :
        LET t == T("direct", k) IN
        /\ (t.pc = "done" /\ t.sent = NoError) => t.elapsed < Timeout
        /\ t.pc = "done" =>
             \/ t.sent = NoError
             \/ t.fetches = maxRetries + 1
             \/ /\ t.sent = TimeoutError(k, t.attempt)
                /\ t.elapsed >= Timeout
                /\ t.fetches = t.attempt

\* a goroutine that stopped with a timeout after 2 of its 3 attempts
StoppedEarly ==
    \E k \in Kinds :
        LET t == T("direct", k) IN
        /\ t.pc = "done"
        /\ t.sent = TimeoutError(k, 2)
        /\ t.fetches = 2
        /\ t.sleeps = 2
        /\ t.fired = 1

\* C6 as claimed: once the deadline has fired during an attempt the goroutine
\* sleeps no more and fetches no more, and what it reports is a timeout.
C6_AbortOnDeadline ==
    \A k \in Kinds :
        LET t == T("direct", k) IN
        t.fired # -1 =>
            /\ t.lateSleeps = 0
            /\ t.fetches = t.fired + 1
            /\ t.pc = "done" => t.sent.msg = "timed out on attempt"

\* C7 as claimed: the error reported after 3 failed attempts carries the
\* error of the last failed attempt.
C7_WrapsLastError ==
    \A k \in Kinds :
        LET t == T("direct", k) IN
        (t.pc = "done" /\ t.sent.msg = "failed after attempts") => t.sent.cause = t.last

-----------------------------------------------------------------------------
(* Properties of the running process (checked under SpecProc) *)

StatusMoves ==
    {<<Loading, Loaded>>, <<Loading, Failed>>, <<Loaded, Loading>>, <<Failed, Loading>>}

\* a caller takes the result of its finished run
Records(c) == ipc[c] = "returned" /\ ipc'[c] = "idle"

\* C8 as claimed: once main has set the first status, Status moves only along
\* Loading->Loaded, Loading->Failed, Loaded->Loading, Failed->Loading, and the
\* step that takes a finished run's result sets Loaded if the run returned no
\* error and Failed if it returned any.
C8_StatusMachine ==
    [][ /\ (mainPc # "m16" /\ Status' # Status) => <<Status, Status'>> \in StatusMoves
        /\ \A c \in Callers :
             Records(c) => Status' = IF ret[c] = <<>> THEN Loaded ELSE Failed
      ]_vars

\* C9 as claimed: the startup run and the scheduler are launched only after
\* Status is Loading, and the step that takes the startup run's result sets
\* Loaded or Failed by that result and leaves the process running.
C9_StartupRecordsResult ==
    /\ []((startupPc # "off" \/ refreshPc # "off") => mainPc # "m16")
    /\ [][ /\ (startupPc = "off" /\ startupPc' # "off") => Status = Loading
           /\ (refreshPc = "off" /\ refreshPc' # "off") => Status = Loading
           /\ Records("startup") =>
                /\ Status' = IF ret["startup"] = <<>> THEN Loaded ELSE Failed
                /\ ~exited'
         ]_vars

\* runs that have started and whose result has not been taken by the caller
InFlight == {c \in Callers : ipc[c] # "idle"}

\* C10: at most one InitializeData run is in flight at any time.
C10_OneRunAtATime == Cardinality(InFlight) <= 1

C10_Witness ==
    /\ InFlight = {"refresh"}
    /\ startupPc = "done"
    /\ \E k \in Kinds : T("refresh", k).pc = "loop" /\ T("refresh", k).attempt > 0

\* C11: whenever an InitializeData run launched by main or by RefreshData is
\* in flight (started, its result not yet recorded by its caller), Status is
\* Loading; this includes the retry run RefreshData starts from Failed.
C11_LoadingWhileInFlight ==
    \A c \in {"startup", "refresh"} : ipc[c] # "idle" => Status = Loading

C11_Witness ==
    /\ ipc["refresh"] = "collect"
    /\ branch = "failed"
    /\ Status = Loading
    /\ \E k \in Kinds : T("refresh", k).pc = "done"
    /\ \E k \in Kinds : T("refresh", k).pc = "loop"

\* RefreshData is between its sleep and the recording of the run's result
AfterSleep == refreshPc \in {"setLoading", "call", "wait"}

\* C12: an iteration of RefreshData that observed Loaded sleeps exactly once,
\* for 24 hours, before it sets Loading and calls InitializeData, and one that
\* observed Failed sleeps exactly once, for 1 second; Status stays Loaded
\* (resp. Failed) until the sleep is over; when the run has returned,
\* RefreshData records Loaded or Failed by the result and goes back to the top
\* of its loop.
C12_OneSleepPerIteration ==
    /\ []( /\ (AfterSleep /\ branch = "loaded") => slept = <<RefreshInterval>>
           /\ (AfterSleep /\ branch = "failed") => slept = <<RetryInterval>>
           /\ AfterSleep => branch \in {"loaded", "failed"}
           /\ (refreshPc \in {"sleep", "setLoading"} /\ branch = "loaded") => Status = Loaded
           /\ (refreshPc \in {"sleep", "setLoading"} /\ branch = "failed") => Status = Failed
           /\ refreshPc = "sleep" => slept = <<>>
           /\ ipc["refresh"] # "idle" => AfterSleep )
    /\ [][ Records("refresh") =>
             /\ Status' = IF ret["refresh"] = <<>> THEN Loaded ELSE Failed
             /\ refreshPc' = "r258"
             /\ slept' = <<>>
         ]_vars

C12_Witness ==
    /\ refreshPc = "wait"
    /\ branch = "failed"
    /\ slept = <<RetryInterval>>
    /\ ipc["refresh"] = "returned"

\* a step taken by main's startup goroutine or by its InitializeData run
StartupStep ==
    \/ startupPc' # startupPc
    \/ task'["startup"] # task["startup"]
    \/ ipc'["startup"] # ipc["startup"]
    \/ recvd'["startup"] # recvd["startup"]

\* C13: while RefreshData is at the top of its loop and Status is Loading, it
\* stays there: it starts no InitializeData run, does not return, and every
\* change of Status or of a store field in that time is made by the startup
\* goroutine or its run.
C13_SpinsWhileLoading ==
    [][ (refreshPc = "r258" /\ Status = Loading) =>
          /\ refreshPc' = "r258"
          /\ ipc'["refresh"] = "idle" /\ ipc["refresh"] = "idle"
          /\ task'["refresh"] = task["refresh"]
          /\ (Status' # Status \/ store' # store) => StartupStep
      ]_vars

C13_Witness ==
    /\ refreshPc = "r258"
    /\ Status = Loading
    /\ ipc["startup"] = "collect"
    /\ store["Artists"] # Nil
    /\ \E k \in Kinds : T("startup", k).pc = "loop" /\ T("startup", k).attempt > 0

\* the triple returned by a GetLoadingStatus call that has returned
Returned(a) == acc[a].pc = "idle" /\ acc[a].returned

\* C14: a GetLoadingStatus call made after a SetLoadingStatus call with one
\* of the three canonical triples had returned, with no other SetLoadingStatus
\* call before or during the read, returns exactly that triple, whatever
\* other GetLoadingStatus calls run at the same time.
C14_RoundTrip ==
    \A a \in Accessors : (Returned(a) /\ acc[a].follows) => acc[a].got = acc[a].expect

C14_Witness ==
    \E a, b \in Accessors :
        /\ a # b
        /\ Returned(a) /\ acc[a].follows
        /\ acc[a].expect = Failed /\ acc[a].got = Failed
        /\ written.all = Triples
        /\ acc[b].pc = "g250b"

\* C15: every triple GetLoadingStatus returns is the argument triple of one
\* SetLoadingStatus call, or the initial value; none mixes fields of two
\* writes.
C15_NoTornRead ==
    \A a \in Accessors : Returned(a) => acc[a].got \in written.all \cup {ZeroStatus}

C15_Witness ==
    \E a, b \in Accessors :
        /\ a # b
        /\ Returned(a) /\ ~acc[a].follows
        /\ acc[a].got = Loaded
        /\ acc[b].pc = "s238" /\ acc[b].arg = Loading
        /\ written.all = Triples

\* the number of flags of a status that are set
Flags(s) == Cardinality({f \in {"IsLoading", "IsLoaded", "HasFailed"} : s[f]})

\* C16 as claimed: in every state of the running process exactly one of
\* IsLoading, IsLoaded and HasFailed is true.
C16_Original == Flags(Status) = 1

\* C16 amended: from main's call of SetLoadingStatus on (main.go:16, before
\* the startup goroutine and RefreshData are launched) exactly one of
\* IsLoading, IsLoaded and HasFailed is true; before it, Status is the zero
\* value with no flag set.
C16_OneFlag ==
    /\ mainPc \notin {"m14", "m16"} => Flags(Status) = 1
    /\ mainPc \in {"m14", "m16"} =>
         (Status = ZeroStatus /\ startupPc = "off" /\ refreshPc = "off")

C16_Witness ==
    /\ Status = Failed
    /\ refreshPc = "sleep"
    /\ branch = "failed"

\* C17 as claimed: no step of a request handler, or of a lookup it calls,
\* changes a store field or a record of a stored collection.
C17_HandlersOnlyRead ==
    [][ req' # req => (store' = store /\ records' = records) ]_vars

\* the locks the code holds around an access to a store field or record:
\* none (api.go:52-57, services.go:13-49)
StoreLocks == {}

\* the store accesses the fetch goroutines are about to make
TaskAccesses ==
    {[loc |-> k, write |-> TRUE, locks |-> StoreLocks] :
        k \in {kk \in Kinds : \E c \in Callers : WritePending(c, kk)}}

\* the store accesses the next step of the request handler makes; SearchAll
\* calls getRelations only inside its loop over the artists it was given
HandlerAccesses ==
    CASE req.pc \in {"searchArtists", "index", "getArtist"} ->
           {[loc |-> "Artists", write |-> FALSE, locks |-> StoreLocks]}
      [] req.pc = "getLocations" ->
           {[loc |-> "Locations", write |-> FALSE, locks |-> StoreLocks]}
      [] req.pc = "getDates" ->
           {[loc |-> "Dates", write |-> FALSE, locks |-> StoreLocks]}
      [] \/ req.pc = "getRelations"
         \/ req.pc = "searchRelations" /\ req.view["Artists"] # Nil ->
           {[loc |-> "Relations", write |-> FALSE, locks |-> StoreLocks],
            [loc |-> "Relations record", write |-> TRUE, locks |-> StoreLocks]}
      [] OTHER -> {}

\* C18 as claimed: whenever a fetch goroutine and a request handler are both
\* about to access the same store field, one of them writing, the two
\* accesses are made under a common lock.
C18_AccessesGuarded ==
    \A a \in TaskAccesses : \A b \in HandlerAccesses :
        (a.loc = b.loc /\ (a.write \/ b.write)) => a.locks \cap b.locks # {}

\* the startup run has loaded the catalog: every store field holds a fetched
\* collection and the startup goroutine has recorded Loaded
CatalogLoaded == startupPc = "done" /\ \A k \in Kinds : store[k] # Nil

\* C20 as claimed: once a run has loaded the catalog, a request for the home
\* page or for the page of an existing artist that is answered while Status
\* is Loading (a refresh is in flight) or Failed (the refresh failed) is
\* answered with the page, showing catalog content.
C20_ServableDuringRefresh ==
    [][ ( /\ req.pc \notin {"idle", "done"} /\ req'.pc = "done"
          /\ req.h \in {"HomeHandler", "ArtistDetailsHandler"}
          /\ req.id \in ArtistIDs
          /\ CatalogLoaded
          /\ Status \in {Loading, Failed} )
        => (req'.code = StatusOK /\ req'.page \in {"index", "artist"})
      ]_vars

\* the response met a failure cause: the transport failed, the status is not
\* 200, or the body does not decode
FailureCause(r) == r.transport = "error" \/ r.status # StatusOK \/ r.body # "valid"

\* C19: a Fetch<k>WithContext call that met a transport error, a status
\* other than 200 or a body that does not decode has returned a non-nil error
\* and a nil collection; when the response arrived in time with a status
\* other than 200 the error carries that status code.
C19_FailureReturnsNil ==
    (call.pc = "returned" /\ FailureCause(call.r)) =>
        /\ call.out.err # NilErr
        /\ call.out.coll = Nil
        /\ (call.r.transport = "ok" /\ call.r.status # StatusOK
              /\ call.elapsed + call.r.delay < Timeout)
             => (call.out.err.msg = "API Unexpected status" /\ call.out.err.code = call.r.status)

C19_Witness ==
    /\ call.pc = "returned"
    /\ call.k = "Relations"
    /\ call.r = [transport |-> "ok", status |-> StatusOK, body |-> "invalid", delay |-> 0]
    /\ call.out.err.msg = "JSON decode failed"
    /\ call.out.coll = Nil

-----------------------------------------------------------------------------
(* Properties of the request handlers and the status (checked under SpecServe) *)

\* the answer r of a request shows content derived from the catalog: the
\* index page, an artist's page, or a JSON list of search results that is
\* not empty
CatalogContent(r) ==
    /\ r.pc = "done"
    /\ r.code = StatusOK
    /\ \/ r.page \in {"index", "artist"}
       \/ r.page = "json" /\ r.results # <<>>

\* C21 as claimed: a request to HomeHandler, ArtistDetailsHandler or
\* SearchHandler is not answered with catalog content while Status is
\* Loading or Failed.
C21_NoContentUnlessLoaded ==
    [][ ( /\ req.pc \notin {"idle", "done"}
          /\ req.h \in {"HomeHandler", "ArtistDetailsHandler", "SearchHandler"}
          /\ CatalogContent(req') )
        => Status \notin {Loading, Failed}
      ]_vars

-----------------------------------------------------------------------------
(* Termination of InitializeData (checked under SpecFair) *)

\* the direct caller under a fair scheduler
SpecFair == Init /\ [][Next]_vars /\ RunFairness

\* C22: every InitializeData call that has started returns, and when it has
\* returned the collecting loop has received four values, the channel is
\* empty and every one of the four goroutines has sent the value it ended
\* with; the value returned is an error list (nil when no goroutine failed).
C22_Terminates ==
    /\ (ipc["direct"] = "collect") ~> (ipc["direct"] = "returned")
    /\ [](ipc["direct"] = "returned" =>
            /\ recvd["direct"] = NumTasks
            /\ ch["direct"] = <<>>
            /\ \A k \in Kinds : task["direct"][k].pc = "done"
            /\ Len(ret["direct"]) =
                 Cardinality({k \in Kinds : task["direct"][k].sent # NoError}))

\* a call has returned after one goroutine timed out, the others succeeded
C22_Witness ==
    /\ ipc["direct"] = "returned"
    /\ \E k \in Kinds : task["direct"][k].sent.msg = "timed out on attempt"
    /\ \E k \in Kinds : task["direct"][k].sent = NoError
    /\ Len(ret["direct"]) = 1

-----------------------------------------------------------------------------
(* Repeated InitializeData calls (checked under Spec) *)

\* behaviours under which an endpoint answers a request of a call as it
\* answered the same request of the call before
Stable == {"healthy", "failing", "hanging"}

\* the upstream responses of the current call are those of the call before
SameResponses ==
    /\ prev.called
    /\ prev.upstream = upstream
    /\ \A k \in Kinds : endpoint[k] \in Stable

\* C23: when a call that follows another call returns, the upstream
\* responses being unchanged, the store is as the call before left it and the
\* errors returned are, as a set, the errors the call before returned.
C23_Idempotent ==
    (ipc["direct"] = "returned" /\ SameResponses) =>
        /\ store = prev.store
        /\ ErrorSet(ret["direct"]) = prev.errs

\* a second call has returned: one endpoint hangs, the others answer; the
\* store and the errors are those of the first call
C23_Witness ==
    /\ ipc["direct"] = "returned"
    /\ SameResponses
    /\ \E k \in Kinds : endpoint[k] = "hanging" /\ store[k] = Nil
    /\ \E k \in Kinds : endpoint[k] = "healthy" /\ store[k] = upstream
    /\ Cardinality(prev.errs) = 1
    /\ ErrorSet(ret["direct"]) = prev.errs

\* a step of the goroutine of kind k in caller c's run
TaskStep(c, k) ==
    TaskTimeout(c, k) \/ TaskSuccess(c, k) \/ TaskRetry(c, k) \/ TaskExhausted(c, k)

\* what the goroutine of kind k of the direct caller's run ends with when
\* its endpoint shows behaviour b, whatever the other goroutines do
OwnOutcome(k, b) ==
    LET t == T("direct", k) IN
    CASE b = "healthy" -> t.sent = NoError /\ t.fetches = 1
      [] b = "flaky"   -> /\ t.sent = NoError
                          /\ t.fetches = IF runs <= 1 THEN FlakyFailures + 1 ELSE 1
      [] b = "failing" -> /\ t.sent.msg = "failed after attempts"
                          /\ t.fetches = maxRetries + 1
                          /\ t.sleeps = maxRetries
      [] b = "hanging" -> t.sent.msg = "timed out on attempt" /\ t.fetches = 1
      [] OTHER -> TRUE

\* C24: in every state of a run, a goroutine that has not finished can take
\* its next step whatever state the other three are in; a goroutine that has
\* finished with a success has replaced its store field, whether or not the
\* others have finished; and a finished goroutine has made the attempts its
\* own endpoint calls for, whatever the other goroutines met.
C24_TasksIndependent ==
    \A k \in Kinds :
        /\ T("direct", k).pc = "loop" => ENABLED TaskStep("direct", k)
        /\ (ipc["direct"] = "collect" /\ T("direct", k).pc = "done"
              /\ T("direct", k).sent = NoError)
             => store[k] = Decode(k, upstream)
        /\ (ipc["direct"] = "collect" /\ T("direct", k).pc = "done")
             => OwnOutcome(k, endpoint[k])

\* a goroutine has succeeded and replaced its field while the goroutine of a
\* failing endpoint is still retrying and nothing has been collected
C24_Witness ==
    /\ ipc["direct"] = "collect"
    /\ recvd["direct"] = 0
    /\ \E k \in Kinds :
         /\ T("direct", k).pc = "done"
         /\ T("direct", k).sent = NoError
         /\ store[k] = Decode(k, upstream)
         /\ pre["direct"][k] # store[k]
    /\ \E k \in Kinds :
         /\ endpoint[k] = "failing"
         /\ T("direct", k).pc = "loop"
         /\ T("direct", k).attempt = 1

\* the goroutines of caller c's run that have sent and returned
Finished(c) == {k \in Kinds : T(c, k).pc = "done"}

\* C25: the values sent on a call's channel so far (buffered or received)
\* are as many as the goroutines that have finished, one each, and no send
\* has panicked; once the call has closed the channel and returned all four
\* goroutines have finished, and from then on no goroutine of that call
\* takes a step: nothing is sent on the closed channel and every store write
\* is a step of a call that has not returned.
C25_OneSendThenExit ==
    /\ [](\A c \in Callers :
            /\ Len(ch[c]) + recvd[c] = Cardinality(Finished(c))
            /\ \A k \in Kinds : T(c, k).pc # "panic"
            /\ closed[c] => Finished(c) = Kinds)
    /\ [][ /\ \A c \in Callers :
                (closed[c] /\ closed'[c]) => (task'[c] = task[c] /\ ch'[c] = ch[c])
           /\ store' # store =>
                \E c \in Callers : ~closed[c] /\ task'[c] # task[c]
         ]_vars

\* a call has closed its channel and returned after one goroutine ended
\* exhausted and another with a success; all four have finished
C25_Witness ==
    /\ closed["direct"]
    /\ ipc["direct"] = "returned"
    /\ Finished("direct") = Kinds
    /\ ch["direct"] = <<>>
    /\ \E k \in Kinds : T("direct", k).sent.msg = "failed after attempts"
    /\ \E k \in Kinds : T("direct", k).sent = NoError

-----------------------------------------------------------------------------
(* The store while Status is Loaded (checked under SpecProc) *)

\* C26: whenever Status is Loaded no run is in flight and every store field
\* holds the collection the most recent run fetched: the four fields stem
\* from that one run.
C26_LoadedFromOneRun ==
    Status = Loaded =>
        /\ InFlight = {}
        /\ \A k \in Kinds : store[k] = Decode(k, upstream)

\* Status is Loaded after a refresh that found the store with fields of
\* different runs (the refresh before it had failed for one kind) and
\* replaced all four
C26_Witness ==
    /\ Status = Loaded
    /\ ipc["refresh"] = "idle"
    /\ \E k, j \in Kinds : pre["refresh"][k] # Nil /\ pre["refresh"][j] # Nil
                            /\ pre["refresh"][k] # pre["refresh"][j]
    /\ \A k \in Kinds : store[k] = Decode(k, upstream)

-----------------------------------------------------------------------------
(* Recovery of the status (checked under SpecRecover) *)

\* C27 as claimed: once all four endpoints answer every request
\* successfully, Status eventually becomes Loaded, whatever failed before,
\* a failure of the startup run included.
C27_EventuallyLoaded == (env = "recovered") ~> (Status = Loaded)

\* C28 as claimed: a request to HomeHandler or ArtistDetailsHandler is
\* answered with catalog content only if Status was Loaded at some instant
\* between the start of its handling and the answer.
C28_ContentOnlyIfSeenLoaded ==
    [][ ( /\ req.pc \notin {"idle", "done"}
          /\ req.h \in {"HomeHandler", "ArtistDetailsHandler"}
          /\ CatalogContent(req') )
        => (req.loaded \/ Status = Loaded)
      ]_vars

-----------------------------------------------------------------------------
(* The order of the returned errors (checked under Spec) *)

\* C29: in the list a call returns, the error of each failed goroutine
\* stands at the place the goroutine took among the failed ones when it sent
\* its error on the result channel: the list is in the order of completion.
C29_CompletionOrder ==
    ipc["direct"] = "returned" =>
        \A k \in Kinds :
            T("direct", k).sent # NoError =>
                /\ T("direct", k).rank \in 1..Len(ret["direct"])
                /\ ret["direct"][T("direct", k).rank] = T("direct", k).sent

\* two goroutines failed and the list returned has the error of the one
\* declared second before the error of the one declared first
C29_Witness ==
    /\ ipc["direct"] = "returned"
    /\ Len(ret["direct"]) = 2
    /\ ret["direct"][1].op = "FetchLocations"
    /\ ret["direct"][2].op = "FetchArtists"
    /\ T("direct", "Locations").rank = 1
    /\ T("direct", "Artists").rank = 2

-----------------------------------------------------------------------------
(* Repeated lookups of a relation (checked under SpecRelations) *)

\* C30: after any number n >= 1 of GetRelationsByID calls for an ID, the
\* stored relation's DatesLocations has the keys and, for every location,
\* the dates in the order that the first call left; every key is a formatted
\* name, which formatLocationName returns unchanged.
C30_LookupIdempotent ==
    lookups.n >= 1 =>
        /\ DOMAIN records[1].DatesLocations = DOMAIN lookups.first.DatesLocations
        /\ \A loc \in DOMAIN records[1].DatesLocations :
             /\ records[1].DatesLocations[loc] = lookups.first.DatesLocations[loc]
             /\ formatLocationName(loc) = loc

\* three calls have been made on a relation stored with a formatted and an
\* unformatted location and unsorted dates; the first call changed it
C30_Witness ==
    /\ lookups.n = 3
    /\ DOMAIN records[1].DatesLocations = {"New York, USA", "London, UK"}
    /\ records[1].DatesLocations["New York, USA"] = <<"15-06-2021", "01-01-2020">>
    /\ records[1].DatesLocations = lookups.first.DatesLocations

\* C31 as claimed: a call on a relation whose DatesLocations the call
\* before left leaves the SortedLocations the call before left: for one
\* DatesLocations content the sequence is the same on every call.
C31_SortedLocationsDeterministic ==
    [][ (lookups.n >= 1 /\ lookups'.n = lookups.n + 1
           /\ records'[1].DatesLocations = records[1].DatesLocations)
        => records'[1].SortedLocations = records[1].SortedLocations
      ]_vars

-----------------------------------------------------------------------------
(* Search and MatchResults (checked under SpecSearch) *)

\* C32 as claimed: in what Search returns, for a query of one word or of
\* several, no contains match stands before a prefix match and no two
\* results have the same Label.
C32_PrefixFirstNoDuplicates ==
    srch.op = "Search" =>
        /\ \A i, j \in 1..Len(srch.out) :
             i < j => ~(srch.out[i].Method = MethodContains
                        /\ srch.out[j].Method = MethodPrefix)
        /\ \A i, j \in 1..Len(srch.out) :
             i # j => srch.out[i].Label # srch.out[j].Label

\* the id is the ID of a result of every group of gs
InEveryGroup(gs, id) ==
    \A n \in 1..Len(gs) : \E i \in 1..Len(gs[n]) : gs[n][i].ID = id

\* how often the result r stands in the groups of gs, and in the sequence rs
TimesInGroups(gs, r) ==
    Cardinality({p \in (1..Len(gs)) \X (1..MaxGroupLen) :
                   p[2] <= Len(gs[p[1]]) /\ gs[p[1]][p[2]] = r})

TimesIn(rs, r) == Cardinality({i \in 1..Len(rs) : rs[i] = r})

\* C33: MatchResults returns no result whose ID is missing from a token
\* group, returns every result of every group whose ID is in all groups, as
\* often as the groups hold it, and returns nothing for zero groups.
C33_MatchResultsExact ==
    srch.op = "MatchResults" =>
        /\ Len(srch.groups) = 0 => srch.out = <<>>
        /\ \A i \in 1..Len(srch.out) :
             /\ InEveryGroup(srch.groups, srch.out[i].ID)
             /\ TimesInGroups(srch.groups, srch.out[i]) > 0
        /\ \A r \in ResultPool :
             (Len(srch.groups) > 0 /\ InEveryGroup(srch.groups, r.ID))
                 => TimesIn(srch.out, r) = TimesInGroups(srch.groups, r)

\* C33 witness: MatchResults was called with three groups that all hold a
\* result of artist 1, one of them twice, and of which only some hold a
\* result of artist 4; it returned the results of artist 1 and not all results.
C33_Witness ==
    /\ srch.op = "MatchResults"
    /\ Len(srch.groups) = 3
    /\ InEveryGroup(srch.groups, 1)
    /\ ~InEveryGroup(srch.groups, 4)
    /\ \E n \in 1..3 : \E i \in 1..Len(srch.groups[n]) : srch.groups[n][i].ID = 4
    /\ \E n \in 1..3 : Len(srch.groups[n]) = 2
                       /\ srch.groups[n][1].ID = 1 /\ srch.groups[n][2].ID = 1
    /\ Len(srch.out) = 4
    /\ \A i \in 1..4 : srch.out[i].ID = 1
    /\ Len(Concat(srch.groups)) > Len(srch.out)

-----------------------------------------------------------------------------
(* The geocode cache file (checked under SpecGeo) *)

\* no Geocode call, no FillCacheBackground and no saveCache goroutine is
\* under way, and the cache has been loaded
GeoQuiet ==
    /\ geo.pc = "ready"
    /\ geo.gc.pc = "idle"
    /\ geo.fill.pc \in {"off", "done"}
    /\ geo.savers = <<>>

\* C34 as claimed: once the Geocode calls, FillCacheBackground and the
\* saveCache goroutines they started have finished, every location of
\* geoCache is in the cache file.
C34_FileHoldsCache == GeoQuiet => geo.cache \subseteq geo.file

====
